---- MODULE Spec2Model ----
(***************************************************************************)
(* Ingestion-and-retrieval engine of gov_bot_tg.                           *)
(*                                                                         *)
(* The store is a PostgreSQL database used through SQLAlchemy sessions     *)
(* (shared/db.py).  Each worker runs ingest_url inside get_session(): one  *)
(* transaction at the default READ COMMITTED isolation, committed when the *)
(* body returns and rolled back when it raises.  The model keeps the       *)
(* committed tables (sources, documents, chunks) and, for every worker,    *)
(* the rows its open transaction has written but not yet committed.        *)
(*                                                                         *)
(* An ingestion is split at its database round trips (SELECT, flush,       *)
(* commit); the Python code between two round trips is local and belongs   *)
(* to the step that follows it.  Arguments of a call are fixed when the    *)
(* call is made; the model draws each argument at the step that first      *)
(* reads it, which gives the same behaviours with fewer states.            *)
(***************************************************************************)
EXTENDS Integers, Sequences, FiniteSets, TLC

VARIABLES
    sources,     \* committed rows of table "sources"
    documents,   \* committed rows of table "documents"
    chunks,      \* committed rows of table "chunks"
    sess,        \* sess[w]: the open session (transaction) of worker w
    epoch,       \* history: the documents and chunks when overlapping work began
    overlap,     \* history: have two open transactions shared a Source
    ret          \* the last retrieve call and what it returned

vars == <<sources, documents, chunks, sess, epoch, overlap, ret>>

-----------------------------------------------------------------------------
(* Bounds of the model.                                                    *)

\* The latest time _utcnow() may return.  Times are counted in the
\* timestamps taken: every new or refreshed Document takes one.
MaxClock == 3

\* Workers ingesting concurrently (Celery worker processes).
Workers == {"w1", "w2"}

-----------------------------------------------------------------------------
(* shared/utils.py : text normalisation and hashing.  Texts are strings;   *)
(* the operators below walk them character by character.                   *)

Char(s, i) == IF 1 <= i /\ i <= Len(s) THEN SubSeq(s, i, i) ELSE ""

\* Python's s * n
RECURSIVE Rep(_, _)
Rep(s, n) ==
    IF n <= 0 THEN ""
    ELSE IF n % 2 = 0 THEN LET h == Rep(s, n \div 2) IN h \o h
    ELSE s \o Rep(s, n - 1)

\* the pieces p[lo], ..., p[hi] joined
RECURSIVE Joined(_, _, _)
Joined(p, lo, hi) ==
    IF lo > hi THEN ""
    ELSE IF lo = hi THEN p[lo]
    ELSE LET mid == (lo + hi) \div 2
         IN  Joined(p, lo, mid) \o Joined(p, mid + 1, hi)

\* s.replace("\r\n", "\n"): the "\r" of every "\r\n" goes
CrLfPiece(s, i) ==
    IF Char(s, i) = "\r" /\ Char(s, i + 1) = "\n" THEN "" ELSE Char(s, i)

\* s.replace("\r", "\n")
CrPiece(s, i) == IF Char(s, i) = "\r" THEN "\n" ELSE Char(s, i)

\* the characters of _ws_re, [ \t ]+ (the no-break space is not drawn)
WsChars == {" ", "\t"}

\* _ws_re.sub(" ", s): a run of blanks becomes one space
WsPiece(s, i) ==
    IF Char(s, i) \in WsChars
    THEN (IF Char(s, i - 1) \in WsChars THEN "" ELSE " ")
    ELSE Char(s, i)

\* _nl_re.sub("\n\n", s) with _nl_re = \n{3,}: of a run of three or more
\* newlines two remain
NlPiece(s, i) ==
    IF Char(s, i) = "\n" /\ Char(s, i - 1) = "\n" /\ Char(s, i - 2) = "\n"
    THEN "" ELSE Char(s, i)

\* the characters str.strip() removes (those the model draws)
PyWhitespace == {" ", "\t", "\n", "\r", "\f"}

\* s.strip()
Strip(s) ==
    LET keep == {i \in 1..Len(s) : Char(s, i) \notin PyWhitespace}
    IN  IF keep = {} THEN ""
        ELSE SubSeq(s, CHOOSE i \in keep : \A j \in keep : i <= j,
                       CHOOSE i \in keep : \A j \in keep : j <= i)

\* the four substitutions, each rewriting every character by what stands
\* around it
CrLfReplaced(s) == Joined([i \in 1..Len(s) |-> CrLfPiece(s, i)], 1, Len(s))
CrReplaced(s)   == Joined([i \in 1..Len(s) |-> CrPiece(s, i)], 1, Len(s))
WsCollapsed(s)  == Joined([i \in 1..Len(s) |-> WsPiece(s, i)], 1, Len(s))
NlCollapsed(s)  == Joined([i \in 1..Len(s) |-> NlPiece(s, i)], 1, Len(s))

normalize_text(s) ==
    Strip(NlCollapsed(WsCollapsed(CrReplaced(CrLfReplaced(s)))))

\* max(1, len(text) // 4)
estimate_tokens(text) ==
    IF Len(text) \div 4 >= 1 THEN Len(text) \div 4 ELSE 1

\* sha256_hex: a collision-free fingerprint of the string it is given
sha256_hex(s) == <<"sha256", s>>

-----------------------------------------------------------------------------
(* Values the model draws.                                                 *)

None == "None"                       \* Python None, SQL NULL
Truthy(x) == x # None /\ x # ""      \* bool(x) of an Optional[str]

\* shared/ingest.py : host sets of _detect_kind
_RADA_HOSTS == {"zakon.rada.gov.ua", "zakon2.rada.gov.ua", "zakon3.rada.gov.ua"}
_KMU_SUFFIX == "kmu.gov.ua"

EndsWith(s, suf) ==
    Len(s) >= Len(suf) /\ SubSeq(s, Len(s) - Len(suf) + 1, Len(s)) = suf

\* a URL is its host and the rest
_detect_kind(url) ==
    IF url.host \in _RADA_HOSTS THEN "zakon_rada"
    ELSE IF EndsWith(url.host, _KMU_SUFFIX) THEN "kmu"
    ELSE "url"

\* canonical source URLs ingest_url arrives at
RadaUrl  == [host |-> "zakon.rada.gov.ua", rest |-> "/go/254k/96-vr"]
OtherUrl == [host |-> "example.org",       rest |-> "/law"]
Urls == { RadaUrl, OtherUrl }

\* the fetched representation stored as Document.url: the source URL itself
\* or another rendering of it (print_final, pdf_final)
DocUrl(url, rendering) == [url EXCEPT !.rest = @ \o rendering]

\* meta as ingest_url builds it: provenance of the fetched representation
MetaOf(docurl, kind) == [ingest |-> [final_url |-> docurl, kind |-> kind]]

Titles == { None }

\* the threshold of _store_document_and_chunks
MinTextLen == 80

TextA     == Rep("a", 80)
TextB     == Rep("a", 79) \o "b"                         \* one character off
TextA2    == " \t" \o Rep("a", 80) \o "\r\n\n\n"         \* normalises to TextA
TextShort == Rep("a", 79)
TextPad   == Rep("a", 39) \o "  " \o Rep("a", 39) \o "\n" \* 81 raw, 79 normalised
TextBlank == " \n\t"
Texts     == { TextA, TextB, TextA2, TextShort, TextPad, TextBlank }

\* What fetching and extracting a URL may hand to the store: a text and the
\* rendering it came from.  The law changes and has two renderings; the
\* other page has one text.  Either may come back empty or too short.
Page(text, rendering) == [text |-> text, rendering |-> rendering]
Pages(url) ==
    IF url = RadaUrl
    THEN { Page(TextA, ""), Page(TextA2, "/print"), Page(TextB, ""),
           Page(TextShort, ""), Page(TextPad, "/print") }
    ELSE { Page(TextA, ""), Page(TextBlank, "") }

\* normalize_text on the texts drawn
NormalizedOf == [s \in Texts |-> normalize_text(s)]

\* Segment(text=..., unit_type=..., unit_id=...): the other fields keep the
\* defaults of the dataclass
Seg(text, unit_type, unit_id) ==
    [text |-> text, path |-> None, heading |-> None, unit_type |-> unit_type,
     unit_id |-> unit_id, part |-> 0]

\* a segment of segment_legal_text, with its heading and path
Unit(text, heading, unit_type, unit_id) ==
    [Seg(text, unit_type, unit_id) EXCEPT !.path = heading, !.heading = heading]

\* The segments argument of the store.  ingest_url computes it from the
\* extracted text, so it is drawn as a function of the content: two articles
\* for one content, the empty list for the other.
SegmentsOf(content_text) ==
    IF content_text = TextA
    THEN << Unit("article one", "Article 1", "article", "1"),
            Unit("article two", "Article 2", "article", "2") >>
    ELSE <<>>

\* llm.embed_texts: one vector per text, or an exception after its retries
Embedding(text) == <<"vec", text>>

-----------------------------------------------------------------------------
(* Rows and sessions.                                                      *)

SourceRow(id, url, kind, title) ==
    [id |-> id, url |-> url, kind |-> kind, title |-> title]

\* uuid4 primary keys: a key no row, committed or pending, carries
RECURSIVE FirstFree(_, _)
FirstFree(used, n) == IF n \in used THEN FirstFree(used, n + 1) ELSE n

FreshSourceId ==
    FirstFree({s.id : s \in sources}
                \cup UNION {{s.id : s \in sess[w].newSrc} : w \in Workers}, 1)
FreshDocId ==
    FirstFree({d.id : d \in documents}
                \cup UNION {{d.id : d \in sess[w].newDoc} : w \in Workers}, 1)

ChunkId(document_id, idx) == <<document_id, idx>>

\* _utcnow(): the wall clock, later than every timestamp taken before and
\* still held by a row, committed or pending
Stamps ==
    {d.fetched_at : d \in documents}
      \cup UNION {{d.fetched_at : d \in sess[w].newDoc \cup sess[w].touch}
                    : w \in Workers}
_utcnow == 1 + (IF Stamps = {} THEN 0
                ELSE CHOOSE t \in Stamps : \A u \in Stamps : u <= t)

\* a session with no transaction open
\* (src, seen and result hold no row or one row; embedded tells whether
\* embed_texts was called and how it ended: "no", "ok", "raised")
NoSess ==
    [pc |-> "idle", title |-> None, src |-> {}, srcSet |-> {},
     newSrc |-> {}, newDoc |-> {}, touch |-> {}, newChunks |-> {},
     locks |-> {}, content_hash |-> None, seen |-> {}, embedded |-> "no",
     result |-> {}]

InFlight(w) == sess[w].pc # "idle"

\* History of the current stretch of overlapping transactions.  It is clean
\* while every ingestion begun in it re-ingests the content of the latest
\* Document of its Source and none was aborted from outside; it then holds
\* the documents and chunks committed when the stretch began, and how many
\* of its ingestions have committed.
Dirty == [clean |-> FALSE, docs |-> {}, chunks |-> {}, n |-> 0]

\* a Document without its fetched_at
Unstamped(d) ==
    [id |-> d.id, source_id |-> d.source_id, url |-> d.url, title |-> d.title,
     content_text |-> d.content_text, content_hash |-> d.content_hash,
     meta |-> d.meta]

\* the same query ordered by fetched_at ascending: the oldest Document
FirstDocs(docs, source_id) ==
    { d \in docs : /\ d.source_id = source_id
                   /\ \A e \in docs : e.source_id = source_id
                                        => d.fetched_at <= e.fetched_at }

\* select(Document).where(source_id == id).order_by(fetched_at.desc()).limit(1):
\* the rows the query may return (none, or a latest one)
LastDocs(docs, source_id) ==
    { d \in docs : /\ d.source_id = source_id
                   /\ \A e \in docs : e.source_id = source_id
                                        => e.fetched_at <= d.fetched_at }

-----------------------------------------------------------------------------
(* shared/db.py get_session : commit on return, rollback on exception.     *)

\* row locks a session's next flush has to take: the rows it UPDATEs and
\* the unique url it INSERTs
Needed(w) ==
    {<<"source", s.id>> : s \in {x \in sess[w].src : sess[w].srcSet # {}}}
      \cup {<<"document", t.id>> : t \in sess[w].touch}
      \cup {<<"url", s.url>> : s \in sess[w].newSrc}

\* a flush waits while another open transaction holds one of those locks
Blocked(w) ==
    \E o \in Workers \ {w} : sess[o].locks \cap Needed(w) # {}

\* session.flush(): the pending statements reach the database, inside the
\* transaction, and take their locks
Flushed(w) == sess[w].locks \cup Needed(w)

\* UPDATE sources SET <dirty columns> WHERE id = src.id
UpdatedSource(row, w) ==
    IF \E s \in sess[w].src : s.id = row.id /\ sess[w].srcSet # {}
    THEN LET s == CHOOSE x \in sess[w].src : x.id = row.id
         IN  [row EXCEPT !.kind  = IF "kind"  \in sess[w].srcSet THEN s.kind  ELSE @,
                         !.title = IF "title" \in sess[w].srcSet THEN s.title ELSE @]
    ELSE row

\* an UPDATE of fetched_at that reaches every Document
TouchedAll(row, w) ==
    IF sess[w].touch # {}
    THEN [row EXCEPT !.fetched_at =
              (CHOOSE t \in sess[w].touch : TRUE).fetched_at]
    ELSE row

\* UPDATE documents SET fetched_at = ... WHERE id = last_doc.id
TouchedDoc(row, w) ==
    IF \E t \in sess[w].touch : t.id = row.id
    THEN [row EXCEPT !.fetched_at =
              (CHOOSE t \in sess[w].touch : t.id = row.id).fetched_at]
    ELSE row

\* a commit that publishes the Document without its Chunk rows
WithoutNewChunks(w) == chunks

\* session.commit(): everything the transaction wrote becomes visible
CommittedSources(w)   == {UpdatedSource(r, w) : r \in sources} \cup sess[w].newSrc
CommittedDocuments(w) == {TouchedDoc(r, w) : r \in documents} \cup sess[w].newDoc
CommittedChunks(w)    == chunks \cup sess[w].newChunks

\* session.rollback(): nothing the transaction wrote remains
RolledBack(w) == [sess EXCEPT ![w] = NoSess]

-----------------------------------------------------------------------------
(* shared/ingest.py _upsert_source                                         *)

\* a kind that is only filled in while it is empty or the default
KindIfDefault(stored, kind) ==
    IF Truthy(kind) /\ stored \in {"", "url"} THEN kind ELSE stored

\* if kind and src.kind != kind: src.kind = kind
BackfillKind(stored, kind) ==
    IF Truthy(kind) /\ stored # kind THEN kind ELSE stored

\* if title and not src.title: src.title = title
BackfillTitle(stored, title) ==
    IF Truthy(title) /\ ~Truthy(stored) THEN title ELSE stored

\* the session after _upsert_source(session, source_url, kind, title)
\* returned an existing row
Reused(w, row, kind, title) ==
    LET k == BackfillKind(row.kind, kind)
        t == BackfillTitle(row.title, title)
    IN  [sess[w] EXCEPT
            !.pc = "store", !.title = title,
            !.src = {[row EXCEPT !.kind = k, !.title = t]},
            !.srcSet = (IF k # row.kind THEN {"kind"} ELSE {})
                         \cup (IF t # row.title THEN {"title"} ELSE {})]

\* ... or built a new one, still to be flushed
Created(w, url, kind, title) ==
    LET row == SourceRow(FreshSourceId, url, kind, title)
    IN  [sess[w] EXCEPT !.pc = "srcflush", !.title = title,
                        !.src = {row}, !.newSrc = {row}]

\* select(Source).where(Source.url == source_url).scalar_one_or_none()
FoundSource(url) == {s \in sources : s.url = url}

UpsertedSession(w, url, kind, title) ==
    IF FoundSource(url) = {}
    THEN Created(w, url, kind, title)
    ELSE Reused(w, CHOOSE s \in FoundSource(url) : TRUE, kind, title)

\* does an ingestion of this Source start as a re-ingestion candidate: the
\* Source is there and has a Document
HasLatest(url) ==
    \E s \in FoundSource(url) : LastDocs(documents, s.id) # {}

\* ingest_url up to and including the SELECT of _upsert_source: the worker
\* opens its session, fetches and extracts (no database access), detects the
\* kind from the URL and looks the Source up
BeginIngest(w) ==
    /\ sess[w].pc = "idle"
    /\ \E url \in Urls, title \in Titles :
          /\ sess' = [sess EXCEPT
                        ![w] = UpsertedSession(w, url, _detect_kind(url), title)]
          /\ epoch' = IF ~HasLatest(url) THEN Dirty
                      ELSE IF \A o \in Workers : ~InFlight(o)
                      THEN [clean |-> TRUE, docs |-> documents,
                            chunks |-> chunks, n |-> 0]
                      ELSE epoch
          /\ overlap' = (overlap \/ \E o \in Workers \ {w} :
                                       \E s \in sess[o].src : s.url = url)
    /\ UNCHANGED <<sources, documents, chunks, ret>>

\* an INSERT that no unique index stops
NoIntegrityError(w) == FALSE

\* session.add(src); session.flush() of _upsert_source: INSERT INTO sources.
\* The unique index on url makes the INSERT wait for an open transaction
\* that inserted the same url, and fail once that url is committed.
IntegrityError(w) ==
    \E s \in sess[w].newSrc : \E c \in sources : c.url = s.url

FlushSource(w) ==
    /\ sess[w].pc = "srcflush"
    /\ ~Blocked(w)
    /\ sess' = IF IntegrityError(w) THEN RolledBack(w)
               ELSE [sess EXCEPT ![w].pc = "store", ![w].locks = Flushed(w)]
    /\ UNCHANGED <<sources, documents, chunks, epoch, overlap, ret>>

-----------------------------------------------------------------------------
(* shared/ingest.py _store_document_and_chunks                             *)

\* a check that rejects the empty text only
OnlyEmpty(content_text) == content_text = ""

\* if not content_text or len(content_text) < 80: raise ValueError
TooShort(content_text) ==
    content_text = "" \/ Len(content_text) < MinTextLen

\* a comparison that never recognises the stored content
NeverUnchanged(last, content_hash) == FALSE

\* last_doc is not None and last_doc.content_hash == content_hash
Unchanged(last, content_hash) ==
    \E d \in last : d.content_hash = content_hash

\* Document(source_id, url, title or src.title, content_text, content_hash,
\*          fetched_at=_utcnow(), meta_json), with the uuid4 id it is given
NewDocument(id, src, docurl, title, content_text, now) ==
    [id |-> id, source_id |-> src.id, url |-> docurl,
     title |-> IF Truthy(title) THEN title ELSE src.title,
     content_text |-> content_text, content_hash |-> sha256_hex(content_text),
     fetched_at |-> now, meta |-> MetaOf(docurl, src.kind)]

\* the session after lines 648-670: the hash, the SELECT of the latest
\* Document, and either the refreshed fetched_at or the new Document, both
\* still to be flushed
Compared(w, content_text, docurl, last, now) ==
    IF Unchanged(last, sha256_hex(content_text))
    THEN [sess[w] EXCEPT
            !.pc = "touchflush", !.seen = last,
            !.content_hash = sha256_hex(content_text),
            !.touch = {[id |-> d.id, fetched_at |-> now] : d \in last}]
    ELSE [sess[w] EXCEPT
            !.pc = "docflush", !.seen = last,
            !.content_hash = sha256_hex(content_text),
            !.newDoc = {NewDocument(FreshDocId, s, docurl, sess[w].title,
                                    content_text, now)
                          : s \in sess[w].src}]

\* is this call a re-ingestion of the content of the Source's latest
\* committed Document
ReIngests(w, content_text) ==
    \E s \in sess[w].src :
        /\ LastDocs(documents, s.id) # {}
        /\ \A d \in LastDocs(documents, s.id) :
               d.content_hash = sha256_hex(content_text)

\* the call of _store_document_and_chunks, up to its first flush, on the
\* text and rendering of one page
StoreCallOn(w, page) ==
    /\ sess[w].pc = "store"
    /\ \E src \in sess[w].src :
        LET content_text == NormalizedOf[page.text]
            docurl       == DocUrl(src.url, page.rendering)
        IN
        IF TooShort(content_text)
        THEN \* ValueError: get_session rolls back
             /\ sess' = RolledBack(w)
             /\ epoch' = Dirty
        ELSE /\ _utcnow <= MaxClock
             /\ \E last \in (IF LastDocs(documents, src.id) = {} THEN {{}}
                             ELSE {{d} : d \in LastDocs(documents, src.id)}) :
                   sess' = [sess EXCEPT
                      ![w] = Compared(w, content_text, docurl, last, _utcnow)]
             /\ epoch' = IF ReIngests(w, content_text) THEN epoch ELSE Dirty
    /\ UNCHANGED <<sources, documents, chunks, overlap, ret>>

StoreCall(w) ==
    \E src \in sess[w].src : \E page \in Pages(src.url) : StoreCallOn(w, page)

IngestResult(source_id, document_id, chunks_upserted, changed) ==
    [source_id |-> source_id, document_id |-> document_id,
     chunks_upserted |-> chunks_upserted, changed |-> changed]

\* last_doc.fetched_at = _utcnow(); session.flush(); return IngestResult(...)
FlushTouch(w) ==
    /\ sess[w].pc = "touchflush"
    /\ ~Blocked(w)
    /\ sess' = [sess EXCEPT
          ![w].pc = "stored", ![w].locks = Flushed(w),
          ![w].result = {IngestResult(s.id, d.id, 0, FALSE)
                           : s \in sess[w].src, d \in sess[w].seen}]
    /\ UNCHANGED <<sources, documents, chunks, epoch, overlap, ret>>

\* the segment list taken as given, empty or not
SegmentsAsGiven(segments, content_text) == segments

\* if not segments: segments = [Segment(text=content_text, "chunk", "0")]
SegmentsOrWhole(segments, content_text) ==
    IF segments = <<>> THEN << Seg(content_text, "chunk", "0") >> ELSE segments

\* try: embeddings = embed_texts(...)  except Exception: [None] * len(segments)
Embeddings(segments, embed_ok) ==
    [i \in 1..Len(segments) |->
        IF embed_ok THEN Embedding(segments[i].text) ELSE None]

\* the Chunk rows of lines 685-701 (idx counts from 0)
NewChunks(doc, segments, embeddings) ==
    { [id |-> ChunkId(doc.id, i - 1), document_id |-> doc.id, idx |-> i - 1,
       path |-> segments[i].path, heading |-> segments[i].heading,
       unit_type |-> segments[i].unit_type, unit_id |-> segments[i].unit_id,
       part |-> segments[i].part, text |-> segments[i].text,
       token_count |-> estimate_tokens(segments[i].text),
       embedding |-> IF i <= Len(embeddings) THEN embeddings[i] ELSE None]
      : i \in 1..Len(segments) }

\* lines 670-704: the flush of the new Document, the embedding call (which
\* may raise, after its retries), the Chunk rows, their flush, and the
\* result.  Only the first flush can wait for another transaction; nothing
\* after it reads or locks a row another transaction can see.
FlushDocument(w) ==
    /\ sess[w].pc = "docflush"
    /\ ~Blocked(w)
    /\ \E embed_ok \in BOOLEAN, doc \in sess[w].newDoc :
        LET segs == SegmentsOrWhole(SegmentsOf(doc.content_text),
                                    doc.content_text)
            rows == NewChunks(doc, segs, Embeddings(segs, embed_ok))
        IN  sess' = [sess EXCEPT
               ![w].pc = "stored", ![w].locks = Flushed(w),
               ![w].embedded = IF embed_ok THEN "ok" ELSE "raised",
               ![w].newChunks = rows,
               ![w].result = {IngestResult(doc.source_id, doc.id,
                                           Cardinality(rows), TRUE)}]
    /\ UNCHANGED <<sources, documents, chunks, epoch, overlap, ret>>

\* get_session after the body returned: session.commit()
Commit(w) ==
    /\ sess[w].pc = "stored"
    /\ ~Blocked(w)
    /\ sources' = CommittedSources(w)
    /\ documents' = CommittedDocuments(w)
    /\ chunks' = CommittedChunks(w)
    /\ sess' = RolledBack(w)
    /\ epoch' = IF epoch.clean THEN [epoch EXCEPT !.n = @ + 1] ELSE epoch
    /\ UNCHANGED <<overlap, ret>>

\* an exception from outside the store at any point of the transaction (the
\* fetch of a later URL, the connection, the commit itself, the worker being
\* killed): get_session rolls back
Abort(w) ==
    /\ InFlight(w)
    /\ sess' = RolledBack(w)
    /\ epoch' = Dirty
    /\ UNCHANGED <<sources, documents, chunks, overlap, ret>>

-----------------------------------------------------------------------------
(* shared/retrieval.py retrieve.  Cosine distance and ts_rank_cd are       *)
(* computed by the database from values the model does not hold; a call    *)
(* draws them: dist[id] and rank[id] for every chunk id, as whole numbers  *)
(* (a score is 1 - dist or rank).  Rows of equal sort key come back in an  *)
(* order the database chooses.                                             *)

Min(a, b) == IF a <= b THEN a ELSE b

\* the ellipsis character U+2026, written in ASCII
Ellipsis == "~"

\* str.rstrip()
RECURSIVE RStrip(_)
RStrip(s) ==
    IF s # "" /\ Char(s, Len(s)) \in PyWhitespace
    THEN RStrip(SubSeq(s, 1, Len(s) - 1)) ELSE s

compact_quote(text, max_len) ==
    LET t == normalize_text(text)
    IN  IF Len(t) <= max_len THEN t
        ELSE RStrip(SubSeq(t, 1, max_len - 1)) \o Ellipsis

\* .join(Document, Document.id == Chunk.document_id)
JoinedRows(rows, docs) ==
    {c \in rows : \E d \in docs : d.id = c.document_id}

\* a vector statement without the filter on null embeddings
Unfiltered(rows, docs) == JoinedRows(rows, docs)

\* .where(Chunk.embedding.is_not(None))
VectorRows(rows, docs) ==
    {c \in JoinedRows(rows, docs) : c.embedding # None}

\* a lexical statement without the filter on the rank
AnyRank(rows, docs, rank) == JoinedRows(rows, docs)

\* .where(rank_expr > 0.0)
LexicalRows(rows, docs, rank) ==
    {c \in JoinedRows(rows, docs) : rank[c.id] > 0}

\* the orders in which ORDER BY key ASC may return the rows S
Ordered(S, key) ==
    {q \in [1..Cardinality(S) -> S] :
        /\ \A i, j \in 1..Cardinality(S) : i # j => q[i] # q[j]
        /\ \A i \in 1..(Cardinality(S) - 1) : key[q[i].id] <= key[q[i + 1].id]}

\* .limit(max(20, k * 4))
BranchLimit(k) == IF 20 >= k * 4 THEN 20 ELSE k * 4
Limited(q, n) == SubSeq(q, 1, Min(n, Len(q)))

\* RetrievedChunk(chunk_id, document_id, title, url, ..., text, score)
RetrievedChunk(c, docs, score) ==
    LET d == CHOOSE x \in docs : x.id = c.document_id
    IN  [chunk_id |-> c.id, document_id |-> c.document_id, title |-> d.title,
         url |-> d.url, path |-> c.path, heading |-> c.heading,
         unit_type |-> c.unit_type, unit_id |-> c.unit_id,
         text |-> c.text, score |-> score]

\* distances, ranks and scores are counted in halves: 1.0 is
One == 2

\* a merge in which the hit handed over last replaces the one held
LastPut(candidates, hit) ==
    IF \E i \in 1..Len(candidates) : candidates[i].chunk_id = hit.chunk_id
    THEN [i \in 1..Len(candidates) |->
            IF candidates[i].chunk_id = hit.chunk_id THEN hit
            ELSE candidates[i]]
    ELSE Append(candidates, hit)

\* existing = candidates.get(cid)
\* if existing is None or score > existing.score: candidates[cid] = hit
\* (a dict keeps the position of a key that is assigned again)
Put(candidates, hit) ==
    IF \E i \in 1..Len(candidates) : candidates[i].chunk_id = hit.chunk_id
    THEN [i \in 1..Len(candidates) |->
            IF candidates[i].chunk_id = hit.chunk_id
               /\ hit.score > candidates[i].score
            THEN hit ELSE candidates[i]]
    ELSE Append(candidates, hit)

RECURSIVE PutAll(_, _)
PutAll(candidates, found) ==
    IF found = <<>> THEN candidates
    ELSE PutAll(Put(candidates, Head(found)), Tail(found))

\* the candidates in the order they were handed over
Unsorted(candidates) == candidates

\* sorted(candidates.values(), key=lambda x: x.score, reverse=True): stable,
\* equal scores keep their order
RECURSIVE SortedByScore(_)
SortedByScore(candidates) ==
    IF candidates = <<>> THEN <<>>
    ELSE LET rest == SortedByScore(Tail(candidates))
             h    == Head(candidates)
             ahead == {i \in 1..Len(rest) : rest[i].score > h.score}
             n    == Cardinality(ahead)
         IN  SubSeq(rest, 1, n) \o <<h>> \o SubSeq(rest, n + 1, Len(rest))

\* the texts a Chunk may carry: a segment or the whole normalized content
ChunkTexts ==
    UNION {{NormalizedOf[t]} \cup {SegmentsOf(NormalizedOf[t])[i].text
                                     : i \in 1..Len(SegmentsOf(NormalizedOf[t]))}
             : t \in Texts}

\* compact_quote(r.text, 900) on those texts
QuoteOf == [t \in ChunkTexts |-> compact_quote(t, 900)]

\* the out list: the first k, each text through compact_quote(r.text, 900)
Out(ranked) ==
    [i \in 1..Len(ranked) |-> [ranked[i] EXCEPT !.text = QuoteOf[@]]]

\* queries: empty, blank, and one that normalises to "law 254"
Queries == {"", " \n\t", " law  254\r\n"}
NormalizedQuery == [q \in Queries |-> normalize_text(q)]

\* what one call of retrieve does and returns; embed is how llm.embed_text
\* ended ("ok", "raised"), vec and lex the rows as the two statements return
\* them before the limit
Retrieved(query, k, embed, vec, lex, dist, rank) ==
    LET q == NormalizedQuery[query]
        found_vec == IF embed = "ok"
                     THEN [i \in 1..Min(BranchLimit(k), Len(vec)) |->
                             RetrievedChunk(vec[i], documents, One - dist[vec[i].id])]
                     ELSE <<>>
        found_lex == [i \in 1..Min(BranchLimit(k), Len(lex)) |->
                         RetrievedChunk(lex[i], documents, rank[lex[i].id])]
        merged == PutAll(PutAll(<<>>, found_vec), found_lex)
        ranked == SortedByScore(merged)
    IN  IF q = ""
        THEN [op |-> "retrieve", query |-> q, k |-> k, embed |-> "no",
              queried |-> FALSE, vec |-> <<>>, lex |-> <<>>, merged |-> <<>>,
              hits |-> <<>>]
        ELSE [op |-> "retrieve", query |-> q, k |-> k, embed |-> embed,
              queried |-> TRUE, vec |-> found_vec, lex |-> found_lex,
              merged |-> merged,
              hits |-> Out(SubSeq(ranked, 1, Min(k, Len(ranked))))]

-----------------------------------------------------------------------------
(* worker/tasks.py : deduplication of the hits.  A hit is any object with  *)
(* the fields of RetrievedChunk; a field may be missing or None.           *)

\* `x or ""` takes the right-hand side for None, "" and 0
Falsy(x) == ToString(x) \in {ToString(None), ToString(""), ToString(0)}

\* str(x or "")
PyStr(x) == IF Falsy(x) THEN "" ELSE ToString(x)

\* the text of a URL
UrlStr(u) == IF Falsy(u) THEN "" ELSE "https://" \o u.host \o u.rest

\* str.lower() on the letters the model draws
UpperCase == "ABCDEFGHIJKLMNOPQRSTUVWXYZ"
LowerCase == "abcdefghijklmnopqrstuvwxyz"
LowerOf ==
    [c \in {Char(UpperCase, i) : i \in 1..Len(UpperCase)} |->
        Char(LowerCase, CHOOSE i \in 1..Len(UpperCase) : Char(UpperCase, i) = c)]
LowerChar(c) == IF c \in DOMAIN LowerOf THEN LowerOf[c] ELSE c
Lower(s) == Joined([i \in 1..Len(s) |-> LowerChar(Char(s, i))], 1, Len(s))

\* hashlib.sha1(...).hexdigest(): a collision-free fingerprint
sha1_hex(s) == "sha1(" \o s \o ")"

_dedup_key(hit) ==
    LET doc_id == PyStr(hit.document_id)
        chunk_id == PyStr(hit.chunk_id)
        url == Lower(Strip(UrlStr(hit.url)))
        loc == Lower(Strip(IF Truthy(hit.heading) THEN hit.heading
                           ELSE IF Truthy(hit.path) THEN hit.path ELSE ""))
        text == Lower(Strip(IF Truthy(hit.text) THEN hit.text ELSE ""))
    IN  IF doc_id # "" /\ chunk_id # ""
        THEN <<"id", doc_id \o ":" \o chunk_id>>
        ELSE IF url # "" \/ loc # ""
        THEN <<"url_loc", url \o "|" \o loc>>
        ELSE <<"text", sha1_hex(text)>>

\* float(getattr(h, "score", 0.0) or 0.0)
ScoreOf(h) == IF Falsy(h.score) THEN 0 ELSE h.score

\* a loop body that lets a later hit of equal score replace the one held
KeptOnTie(best, h) ==
    IF \E i \in 1..Len(best) : _dedup_key(best[i]) = _dedup_key(h)
    THEN [i \in 1..Len(best) |->
            IF _dedup_key(best[i]) = _dedup_key(h)
               /\ ScoreOf(h) >= ScoreOf(best[i])
            THEN h ELSE best[i]]
    ELSE Append(best, h)

\* one turn of the loop: best holds best_by_key[k] for k in order
Kept(best, h) ==
    IF \E i \in 1..Len(best) : _dedup_key(best[i]) = _dedup_key(h)
    THEN [i \in 1..Len(best) |->
            IF _dedup_key(best[i]) = _dedup_key(h)
               /\ ScoreOf(h) > ScoreOf(best[i])
            THEN h ELSE best[i]]
    ELSE Append(best, h)

RECURSIVE KeptAll(_, _)
KeptAll(best, hits) ==
    IF hits = <<>> THEN best
    ELSE KeptAll(Kept(best, Head(hits)), Tail(hits))

_deduplicate_hits(hits) == KeptAll(<<>>, hits)

-----------------------------------------------------------------------------
(* worker/tasks.py : answer_question, from the hits to the request.  The   *)
(* Ukrainian words of the templates are written in ASCII letters, with as  *)
(* many characters as the originals have.                                  *)

\* settings.max_context_chars (MAX_CONTEXT_CHARS), as configured here; the
\* default is 14000
max_context_chars == 200

\* the characters of a citation's quote before the ellipsis
QuoteChars == 320

\* max(1, min(int(max_citations), 10))
ClampedCitations(max_citations) ==
    LET m == IF max_citations <= 10 THEN max_citations ELSE 10
    IN  IF m >= 1 THEN m ELSE 1

_fmt_loc(path, heading) ==
    LET a == Strip(IF Truthy(heading) THEN heading ELSE "")
        b == Strip(IF Truthy(path) THEN path ELSE "")
    IN  IF a # "" /\ b # "" /\ a # b THEN a \o " (" \o b \o ")"
        ELSE IF a # "" THEN a ELSE b

\* sep.join(parts)
RECURSIVE JoinedWith(_, _)
JoinedWith(sep, parts) ==
    IF parts = <<>> THEN ""
    ELSE IF Len(parts) = 1 THEN parts[1]
    ELSE parts[1] \o sep \o JoinedWith(sep, Tail(parts))

\* f"[{i}] {h.title or 'Dokument'}{loc_line}\nURL: {h.url or ''}\nFragment:\n{h.text}"
ContextBlock(i, h) ==
    LET loc == _fmt_loc(h.path, h.heading)
    IN  "[" \o ToString(i) \o "] "
          \o (IF Truthy(h.title) THEN h.title ELSE "Dokument")
          \o (IF loc # "" THEN "\nLokacia: " \o loc ELSE "")
          \o "\nURL: " \o UrlStr(h.url)
          \o "\nFragment:\n" \o h.text

\* f"[{i}] = {h.url or h.title or 'source'}" + (f" ({loc})" if loc else "")
HintLine(i, h) ==
    LET loc == _fmt_loc(h.path, h.heading)
    IN  "[" \o ToString(i) \o "] = "
          \o (IF UrlStr(h.url) # "" THEN UrlStr(h.url)
              ELSE IF Truthy(h.title) THEN h.title ELSE "source")
          \o (IF loc # "" THEN " (" \o loc \o ")" ELSE "")

\* h.text[:320] + ("..." if len(h.text) > 320 else ""), the three dots being
\* the one ellipsis character
QuoteText(text) ==
    IF Len(text) > QuoteChars
    THEN SubSeq(text, 1, QuoteChars) \o Ellipsis ELSE text

\* Citation(n=i, ...).model_dump(mode="json"): the ids leave as strings
Citation(i, h) ==
    [n |-> i, document_id |-> ToString(h.document_id),
     chunk_id |-> ToString(h.chunk_id), title |-> h.title,
     url |-> UrlStr(h.url), path |-> h.path, heading |-> h.heading,
     unit_type |-> h.unit_type, unit_id |-> h.unit_id,
     quote |-> QuoteText(h.text), score |-> h.score]

\* numbering that counts from 0
CountedFromZero(hits) == [i \in 1..Len(hits) |-> Citation(i - 1, hits[i])]

\* the citations list of lines 177-200: enumerate(hits, start=1)
Citations(hits) == [i \in 1..Len(hits) |-> Citation(i, hits[i])]

\* the blocks left as they are, whatever their length
WholeBlocks(blocks) == blocks

\* lines 202-205: the blocks, or the one clipped blob when they are too long
Truncated(blocks) ==
    LET joined == JoinedWith("\n\n", blocks)
    IN  IF Len(joined) > max_context_chars
        THEN << RStrip(SubSeq(joined, 1, max_context_chars))
                  \o "\n" \o Ellipsis >>
        ELSE blocks

-----------------------------------------------------------------------------
(* Text scanning shared by shared/llm.py and worker/tasks.py.              *)

\* the first place at or after i that holds no whitespace (\s*)
SkipWs(s, i) ==
    CHOOSE j \in i..(Len(s) + 1) :
        /\ Char(s, j) \notin PyWhitespace
        /\ \A n \in i..(j - 1) : Char(s, n) \in PyWhitespace

\* the lower-case word w stands at i, in any case ((?i))
WordAt(s, i, w) ==
    i >= 1 /\ i + Len(w) - 1 <= Len(s)
           /\ Lower(SubSeq(s, i, i + Len(w) - 1)) = w

DigitOf ==
    [c \in {Char("0123456789", i) : i \in 1..10} |->
        (CHOOSE i \in 1..10 : Char("0123456789", i) = c) - 1]

\* _CIT_RE = \[(\d{1,2})\] at place i: the number it captures, or -1
CitAt(s, i) ==
    LET a == Char(s, i + 1)
        b == Char(s, i + 2)
    IN  IF Char(s, i) # "[" \/ a \notin DOMAIN DigitOf THEN 0 - 1
        ELSE IF b = "]" THEN DigitOf[a]
        ELSE IF b \in DOMAIN DigitOf /\ Char(s, i + 3) = "]"
        THEN 10 * DigitOf[a] + DigitOf[b]
        ELSE 0 - 1

\* _CIT_RE.findall(s), the captures as numbers, from the places P on
RECURSIVE FoundAt(_, _)
FoundAt(s, P) ==
    IF P = {} THEN <<>>
    ELSE LET i == CHOOSE x \in P : \A y \in P : x <= y
         IN  <<CitAt(s, i)>> \o FoundAt(s, P \ {i})

\* for n in found: if n not in nums: nums.append(n)
RECURSIVE AppendedNew(_, _)
AppendedNew(nums, found) ==
    IF found = <<>> THEN nums
    ELSE AppendedNew(IF \E i \in 1..Len(nums) : nums[i] = Head(found)
                     THEN nums ELSE Append(nums, Head(found)),
                     Tail(found))

\* tasks._extract_used_numbers, and llm._extract_citation_numbers, which is
\* the same function
_extract_used_numbers(answer) ==
    AppendedNew(<<>>, FoundAt(answer, {i \in 1..Len(answer) :
                                          CitAt(answer, i) >= 0}))

\* _NEED_MORE_RE = (?im)^\s*need_more_info\s*=\s*(true|false)\s*$ matched at
\* p: the place after the match, or 0.  The last \s* takes all the
\* whitespace it can while stopping at the end of a line.
NeedMoreEnd(s, p) ==
    LET q == SkipWs(s, p)
        b == SkipWs(s, q + Len("need_more_info"))
        c == SkipWs(s, b + 1)
        e == IF WordAt(s, c, "true") THEN c + 4
             ELSE IF WordAt(s, c, "false") THEN c + 5 ELSE 0
        ends == {j \in e..(Len(s) + 1) :
                    /\ \A n \in e..(j - 1) : Char(s, n) \in PyWhitespace
                    /\ j = Len(s) + 1 \/ Char(s, j) = "\n"}
    IN  IF /\ p = 1 \/ Char(s, p - 1) = "\n"
           /\ WordAt(s, q, "need_more_info")
           /\ Char(s, b) = "="
           /\ e # 0 /\ ends # {}
        THEN CHOOSE j \in ends : \A n \in ends : n <= j
        ELSE 0

\* re.sub(_NEED_MORE_RE, "", s) from the place i on: the matches are taken
\* from left to right, each search starting where the last match ended
RECURSIVE NeedMoreRemoved(_, _)
NeedMoreRemoved(s, i) ==
    LET starts == {p \in i..Len(s) : NeedMoreEnd(s, p) # 0}
        p == CHOOSE x \in starts : \A y \in starts : x <= y
    IN  IF starts = {} THEN SubSeq(s, i, Len(s))
        ELSE SubSeq(s, i, p - 1) \o NeedMoreRemoved(s, NeedMoreEnd(s, p))

\* The text stripped, with its service lines left in.
OnlyStripped(text) == Strip(text)

_clean_service_markers(text) == Strip(NeedMoreRemoved(text, 1))

-----------------------------------------------------------------------------
(* shared/llm.py : what answer_with_citations makes of the model's output. *)
(* A payload is the output text: parsed, a JSON object with the fields of  *)
(* the schema and a non-empty answer_markdown, or else text that is no     *)
(* JSON object, which is then the answer as it stands.                     *)

\* the section words of the two patterns, in ASCII letters and lower case
SourcesWords == {"istochniki", "dzherela"}

WordChars ==
    {"_"} \cup {Char(UpperCase, i) : i \in 1..Len(UpperCase)}
          \cup {Char(LowerCase, i) : i \in 1..Len(LowerCase)}
          \cup DOMAIN DigitOf

\* the first place at or after i that holds no "#" (#+)
SkipHashes(s, i) ==
    CHOOSE j \in i..(Len(s) + 1) :
        /\ Char(s, j) # "#"
        /\ \A n \in i..(j - 1) : Char(s, n) = "#"

\* re.sub(r"(?is)\n?#+\s*(Istochniki|Dzherela)\b.*$", "", s).strip()
HeadingCut(s) ==
    LET P == {i \in 1..Len(s) :
                /\ Char(s, i) = "#"
                /\ \E w \in SourcesWords :
                      LET q == SkipWs(s, SkipHashes(s, i))
                      IN  /\ WordAt(s, q, w)
                          /\ Char(s, q + Len(w)) \notin WordChars}
    IN  IF P = {} THEN Strip(s)
        ELSE Strip(SubSeq(s, 1, (CHOOSE x \in P : \A y \in P : x <= y) - 1))

\* re.sub(r"(?is)\n?(Istochniki|Dzherela)\s*:.*$", "", s).strip()
LabelCut(s) ==
    LET P == {i \in 1..Len(s) :
                \E w \in SourcesWords :
                    /\ WordAt(s, i, w)
                    /\ Char(s, SkipWs(s, i + Len(w))) = ":"}
    IN  IF P = {} THEN Strip(s)
        ELSE Strip(SubSeq(s, 1, (CHOOSE x \in P : \A y \in P : x <= y) - 1))

\* [str(q).strip() for q in raw if str(q).strip()]
RECURSIVE Stripped(_)
Stripped(raw) ==
    IF raw = <<>> THEN <<>>
    ELSE (IF Strip(Head(raw)) # "" THEN <<Strip(Head(raw))>> ELSE <<>>)
           \o Stripped(Tail(raw))

_coerce_structured_payload(payload, fallback_text) ==
    LET answer_md ==
            LabelCut(HeadingCut(Strip(
                IF payload.parsed /\ payload.answer_markdown # ""
                THEN payload.answer_markdown ELSE fallback_text)))
        used == IF payload.parsed
                THEN AppendedNew(<<>>, payload.citations_used) ELSE <<>>
    IN  [answer_markdown |-> answer_md,
         citations_used |-> IF used = <<>>
                            THEN _extract_used_numbers(answer_md) ELSE used,
         need_more_info |-> payload.parsed /\ payload.need_more_info,
         questions |-> IF payload.parsed THEN Stripped(payload.questions)
                       ELSE <<>>,
         notes |-> IF payload.parsed THEN Stripped(payload.notes) ELSE <<>>]

\* a dict is a set of <<key, value>> pairs
EmptyDict == {}

\* _usage_to_dict on None or a dict
_usage_to_dict(usage) == IF Falsy(usage) THEN EmptyDict ELSE usage

\* lines 231-235: the parsed output with the usage of the response
answer_with_citations(payload) ==
    [out |-> _coerce_structured_payload(payload, payload.raw_text),
     usage |-> _usage_to_dict(payload.usage)]

-----------------------------------------------------------------------------
(* worker/tasks.py : answer_question, from the completion to the result.   *)

\* _normalize_usage on None or a dict
_normalize_usage(raw) == IF Falsy(raw) THEN EmptyDict ELSE raw

\* a filter that lets every citation through
AllCitations(citations, used) == citations

_filter_citations(citations, used) ==
    IF used = <<>> THEN <<>>
    ELSE SelectSeq(citations,
                   LAMBDA c : \E i \in 1..Len(used) : used[i] = c.n)

\* a list of used numbers taken as it comes
AsListed(used) == used

\* [int(x) for x in citations_used if str(x).isdigit()], on integers: the
\* decimal form of a negative one begins with "-"
RECURSIVE DigitsOnly(_)
DigitsOnly(used) ==
    IF used = <<>> THEN <<>>
    ELSE (IF Head(used) >= 0 THEN <<Head(used)>> ELSE <<>>)
           \o DigitsOnly(Tail(used))

\* line 230, shortened
PreviewIntro == "No LLM answer. Relevant fragments:\n\n"

\* lines 228-232
Preview(citations) ==
    LET top == SubSeq(citations, 1, Min(3, Len(citations)))
        quoted == SelectSeq(top, LAMBDA c : c.quote # "")
    IN  Strip(PreviewIntro
                \o JoinedWith("\n\n",
                      [i \in 1..Len(quoted) |->
                          "[" \o ToString(quoted[i].n) \o "] " \o quoted[i].quote]))

\* lines 162-166, shortened
BaseAnswer == "Not enough relevant sources in the base."

\* the dict answer_question returns
Result(answer, citations, usage) ==
    [answer |-> answer, citations |-> citations, usage |-> usage]

\* what the completion left when it raised: llm_out = {}
NoLlmOut ==
    [answer_markdown |-> "", citations_used |-> <<>>, need_more_info |-> FALSE,
     questions |-> <<>>, notes |-> <<>>]

\* lines 153-158: the call with the hits retrieve returned for it
Called(question, max_citations, retrieved) ==
    [op |-> "answer_question", pc |-> "retrieved", question |-> question,
     k |-> ClampedCitations(max_citations), retrieved |-> retrieved]

\* a test of the hits that never finds them empty
NeverEmpty(hits) == FALSE

\* line 161: if not hits
NoHits(hits) == hits = <<>>

\* lines 159-207: the hits deduplicated, and either the fallback result or
\* the request that goes to the completion
Prepared(call) ==
    LET hits == _deduplicate_hits(call.retrieved)
        blocks == [i \in 1..Len(hits) |-> ContextBlock(i, hits[i])]
    IN  [op |-> "answer_question",
         pc |-> IF NoHits(hits) THEN "returned" ELSE "completing",
         question |-> call.question,
         k |-> call.k,
         retrieved |-> call.retrieved, hits |-> hits,
         blocks |-> blocks,
         context_blocks |-> Truncated(blocks),
         citations_hint_lines |-> [i \in 1..Len(hits) |-> HintLine(i, hits[i])],
         citations |-> Citations(hits),
         llm |-> "not called", llm_out |-> NoLlmOut,
         answer_text |-> "", used_numbers |-> <<>>,
         result |-> IF NoHits(hits) THEN Result(BaseAnswer, <<>>, EmptyDict)
                    ELSE Result("", <<>>, EmptyDict)]

\* lines 209-245: outcome is "raised" or the payload the completion produced
Returned(call, outcome) ==
    LET raised == ToString(outcome) = ToString("raised")
        llm == IF raised THEN [out |-> NoLlmOut, usage |-> EmptyDict]
               ELSE answer_with_citations(outcome)
        said == IF raised THEN "" ELSE Strip(llm.out.answer_markdown)
        listed == IF raised THEN <<>> ELSE DigitsOnly(llm.out.citations_used)
        answer_text == _clean_service_markers(
                          IF said = "" THEN Preview(call.citations) ELSE said)
        used_numbers == IF listed = <<>>
                        THEN _extract_used_numbers(answer_text) ELSE listed
    IN  [call EXCEPT
            !.pc = "returned",
            !.llm = IF raised THEN "raised" ELSE "ok",
            !.llm_out = llm.out,
            !.answer_text = answer_text,
            !.used_numbers = used_numbers,
            !.result = Result(answer_text,
                              _filter_citations(call.citations, used_numbers),
                              IF raised THEN EmptyDict
                              ELSE _normalize_usage(llm.usage))]

-----------------------------------------------------------------------------
NoRet == [op |-> "none"]

Init ==
    /\ sources = {} /\ documents = {} /\ chunks = {}
    /\ sess = [w \in Workers |-> NoSess]
    /\ epoch = Dirty
    /\ overlap = FALSE
    /\ ret = NoRet

Next ==
    \E w \in Workers :
        \/ BeginIngest(w)
        \/ FlushSource(w)
        \/ StoreCall(w)
        \/ FlushTouch(w)
        \/ FlushDocument(w)
        \/ Commit(w)
        \/ Abort(w)

Spec == Init /\ [][Next]_vars

-----------------------------------------------------------------------------
(* Properties of ingestion, checked under Spec.                            *)

AllPages == UNION {Pages(url) : url \in Urls}

\* the Documents and Chunks of one Source
DocsOf(docs, source_id) == {d \in docs : d.source_id = source_id}
ChunksOf(rows, document_id) == {c \in rows : c.document_id = document_id}

\* C1 (idempotent re-ingestion): when the store is called for a Source whose
\* most recently fetched Document carries the hash of the normalized incoming
\* text, it prepares no Document and no Chunk, only the refresh of that
\* Document's fetched_at; it returns changed = FALSE, chunks_upserted = 0 and
\* that Document's id without calling the embedder; and its commit leaves
\* every Document as it was but for that fetched_at, every Chunk as it was,
\* and the counts of both the same.
C1_Call(w) ==
    \A page \in AllPages :
        StoreCallOn(w, page) /\ ReIngests(w, NormalizedOf[page.text]) =>
            /\ sess'[w].pc = "touchflush"
            /\ sess'[w].newDoc = {} /\ sess'[w].newChunks = {}
            /\ \E s \in sess[w].src : \E d \in LastDocs(documents, s.id) :
                   /\ sess'[w].seen = {d}
                   /\ {t.id : t \in sess'[w].touch} = {d.id}

C1_Return(w) ==
    FlushTouch(w) =>
        /\ sess'[w].newDoc = {} /\ sess'[w].newChunks = {}
        /\ sess'[w].embedded = "no"
        /\ \E s \in sess[w].src, d \in sess[w].seen :
               sess'[w].result = {IngestResult(s.id, d.id, 0, FALSE)}

C1_Commit(w) ==
    Commit(w) /\ sess[w].touch # {} =>
        /\ chunks' = chunks
        /\ sources' = sources
        /\ Cardinality(documents') = Cardinality(documents)
        /\ {Unstamped(d) : d \in documents'} = {Unstamped(d) : d \in documents}
        /\ \A d \in documents \ documents' : \E t \in sess[w].touch : t.id = d.id

C1_IdempotentReingestion ==
    [][\A w \in Workers : C1_Call(w) /\ C1_Return(w) /\ C1_Commit(w)]_vars

\* C1's case: a Document created once, refreshed by one re-ingestion, and a
\* second re-ingestion of the same content has just returned
C1_Witness ==
    \E w \in Workers : \E r \in sess[w].result :
        /\ sess[w].pc = "stored" /\ ~r.changed
        /\ \E d \in documents :
              /\ d.id = r.document_id /\ d.fetched_at >= 2
              /\ DocsOf(documents, d.source_id) = {d}
              /\ ChunksOf(chunks, d.id) # {}

\* the incoming content differs from the Source's most recent Document, or
\* the Source has none
Differs(w, content_text) ==
    \A s \in sess[w].src : \A d \in LastDocs(documents, s.id) :
        d.content_hash # sha256_hex(content_text)

\* C2 (content-change detection): when the hash of the normalized incoming
\* text differs from that of the Source's most recent Document, or the Source
\* has no Document, the store prepares exactly one new Document with a new
\* id; it returns changed = TRUE and chunks_upserted = the number of segments
\* (1, the whole text, when the segment list is empty) with that many Chunks
\* of the new Document; and its commit adds that Document and those Chunks
\* and leaves every earlier Document and Chunk present and unmodified.
C2_Call(w) ==
    \A page \in AllPages :
        LET content_text == NormalizedOf[page.text] IN
        StoreCallOn(w, page) /\ ~TooShort(content_text)
                             /\ Differs(w, content_text) =>
            /\ sess'[w].pc = "docflush"
            /\ sess'[w].touch = {}
            /\ \E s \in sess[w].src : \E d \in sess'[w].newDoc :
                  /\ sess'[w].newDoc = {d}
                  /\ d.source_id = s.id
                  /\ d.content_text = content_text
                  /\ d.content_hash = sha256_hex(content_text)
                  /\ \A e \in documents : e.id # d.id

C2_Return(w) ==
    FlushDocument(w) =>
        \E d \in sess[w].newDoc :
            LET given == SegmentsOf(d.content_text)
                n     == IF given = <<>> THEN 1 ELSE Len(given)
            IN  /\ sess'[w].result = {IngestResult(d.source_id, d.id, n, TRUE)}
                /\ sess'[w].newDoc = {d}
                /\ Cardinality(sess'[w].newChunks) = n
                /\ {c.idx : c \in sess'[w].newChunks} = 0..(n - 1)
                /\ \A c \in sess'[w].newChunks :
                      /\ c.document_id = d.id
                      /\ given = <<>> => c.text = d.content_text
                      /\ given # <<>> => c.text = given[c.idx + 1].text

C2_Commit(w) ==
    Commit(w) /\ sess[w].newDoc # {} =>
        /\ documents \subseteq documents'
        /\ chunks \subseteq chunks'
        /\ documents' \ documents = sess[w].newDoc
        /\ chunks' \ chunks = sess[w].newChunks
        /\ Cardinality(documents') = Cardinality(documents) + 1

C2_ContentChangeDetection ==
    [][\A w \in Workers : C2_Call(w) /\ C2_Return(w) /\ C2_Commit(w)]_vars

\* C2's case: content A, then B, then A again stored as three Documents of
\* one Source, each with its Chunks
C2_Witness ==
    \E d1, d2, d3 \in documents :
        /\ d1.source_id = d2.source_id /\ d2.source_id = d3.source_id
        /\ d1.fetched_at < d2.fetched_at /\ d2.fetched_at < d3.fetched_at
        /\ d1.content_text = TextA /\ d2.content_text = TextB
        /\ d3.content_text = TextA
        /\ \A d \in {d1, d2, d3} : ChunksOf(chunks, d.id) # {}

\* every committed Document has its complete Chunk set, idx 0..n-1 with
\* n >= 1 and one Chunk per idx, under a committed Source; no Chunk is
\* without its Document
Complete ==
    /\ \A d \in documents :
          /\ \E s \in sources : s.id = d.source_id
          /\ ChunksOf(chunks, d.id) # {}
          /\ {c.idx : c \in ChunksOf(chunks, d.id)}
                = 0..(Cardinality(ChunksOf(chunks, d.id)) - 1)
    /\ \A c \in chunks : \E d \in documents : d.id = c.document_id
    /\ \A c1, c2 \in chunks :
          c1.document_id = c2.document_id /\ c1.idx = c2.idx => c1 = c2

\* an ingestion of worker w ends without its commit: validation error,
\* IntegrityError, or any exception from outside
Fails(w) == InFlight(w) /\ ~InFlight(w)' /\ ~Commit(w)

\* C3 (ingestion atomicity): every committed state is Complete, whatever
\* steps failed on the way; and a step that is not a commit, in particular
\* the failure of an ingestion at any point, leaves the committed sources,
\* documents and chunks exactly as they were.
C3_IngestionAtomicity ==
    [][/\ Complete'
       /\ \A w \in Workers :
             Fails(w) => UNCHANGED <<sources, documents, chunks>>
       /\ (\A w \in Workers : ~Commit(w))
             => UNCHANGED <<sources, documents, chunks>>]_vars

\* C3's case: a transaction has inserted a new Source and a new Document
\* whose Chunks are not yet written, next to committed Documents; a failure
\* now must leave no trace of either
C3_Witness ==
    \E w \in Workers :
        /\ sess[w].pc = "docflush"
        /\ sess[w].newSrc # {} /\ sess[w].newDoc # {}
        /\ sess[w].locks # {}
        /\ documents # {}
        /\ \A d \in sess[w].newDoc : d \notin documents
        /\ \A s \in sess[w].newSrc : s \notin sources

\* C4 (validation failure): a call of the store with a normalized text that
\* is empty or shorter than 80 characters raises before any Document or Chunk
\* is added and before the embedder is called, so the transaction is rolled
\* back and the tables stay; a text of 80 characters or more passes the check
\* and goes on to the comparison.
C4_Call(w) ==
    \A page \in AllPages :
        LET content_text == NormalizedOf[page.text] IN
        StoreCallOn(w, page) =>
            /\ sess[w].newDoc = {} /\ sess[w].newChunks = {}
            /\ sess[w].embedded = "no"
            /\ IF Len(content_text) < MinTextLen
               THEN /\ sess'[w] = NoSess
                    /\ UNCHANGED <<sources, documents, chunks>>
               ELSE /\ sess'[w].pc \in {"touchflush", "docflush"}
                    /\ sess'[w].embedded = "no"
                    /\ sess'[w].content_hash = sha256_hex(content_text)

C4_ValidationFailure == [][\A w \in Workers : C4_Call(w)]_vars

\* C4's case: a text of exactly 80 characters was accepted and stored, and a
\* worker that has inserted a new Source is about to call the store on a page
\* that may be too short
C4_Witness ==
    /\ \E d \in documents : Len(d.content_text) = MinTextLen
    /\ \E w \in Workers :
          /\ sess[w].pc = "store" /\ sess[w].newSrc # {}
          /\ \E s \in sess[w].src : \E page \in Pages(s.url) :
                 /\ Len(page.text) >= MinTextLen
                 /\ Len(NormalizedOf[page.text]) < MinTextLen

\* C5 (embedding failure is not fatal): when embed_texts raises during the
\* ingestion of changed content, the store still returns changed = TRUE with
\* chunks_upserted = the number of segments, every Chunk of the new Document
\* has a null embedding, and the transaction can commit; once committed, such
\* a Chunk is never among the rows of retrieve's vector statement, and it is
\* among the rows of the lexical statement exactly when its rank is positive.
C5_Return(w) ==
    FlushDocument(w) /\ sess'[w].embedded = "raised" =>
        \E d \in sess[w].newDoc :
            LET given == SegmentsOf(d.content_text)
                n     == IF given = <<>> THEN 1 ELSE Len(given)
            IN  /\ sess'[w].pc = "stored"
                /\ sess'[w].result = {IngestResult(d.source_id, d.id, n, TRUE)}
                /\ Cardinality(sess'[w].newChunks) = n
                /\ \A c \in sess'[w].newChunks :
                      c.document_id = d.id /\ c.embedding = None

C5_Commit(w) ==
    Commit(w) /\ sess[w].embedded = "raised" =>
        /\ sess[w].newChunks # {}
        /\ sess[w].newChunks \subseteq chunks'
        /\ sess[w].newDoc \subseteq documents'

C5_Retrieval ==
    chunks' # chunks =>
        \A c \in chunks' :
            c.embedding = None =>
               /\ c \notin VectorRows(chunks', documents')
               /\ \A rank \in [{x.id : x \in chunks'} -> {0, 1}] :
                     c \in LexicalRows(chunks', documents', rank)
                        <=> rank[c.id] > 0

C5_EmbeddingFailureNotFatal ==
    [][/\ \A w \in Workers : C5_Return(w) /\ C5_Commit(w)
       /\ C5_Retrieval]_vars

\* C5's case: a Document committed with all its Chunks unembedded, next to
\* one whose Chunks are embedded
C5_Witness ==
    \E d, e \in documents :
        /\ ChunksOf(chunks, d.id) # {}
        /\ \A c \in ChunksOf(chunks, d.id) : c.embedding = None
        /\ Cardinality(ChunksOf(chunks, d.id)) = 2
        /\ \E c \in ChunksOf(chunks, e.id) : c.embedding # None


\* two Documents of one Source next to each other in fetched_at order: in
\* every order that fetched_at allows, or in at least one
AdjacentAlways(d, e) ==
    /\ d # e /\ d.source_id = e.source_id /\ d.fetched_at <= e.fetched_at
    /\ \A f \in DocsOf(documents, d.source_id) \ {d, e} :
          f.fetched_at < d.fetched_at \/ e.fetched_at < f.fetched_at

AdjacentSomewhere(d, e) ==
    /\ d # e /\ d.source_id = e.source_id /\ d.fetched_at <= e.fetched_at
    /\ \A f \in DocsOf(documents, d.source_id) \ {d, e} :
          f.fetched_at <= d.fetched_at \/ e.fetched_at <= f.fetched_at

\* C6 as stated (no duplicate versions): in every reachable state, under
\* any interleaving of ingestions of one Source, no two Documents of a Source
\* that are adjacent in fetched_at order have the same content_hash.
C6_NoAdjacentDuplicates ==
    \A d, e \in documents :
        AdjacentAlways(d, e) => d.content_hash # e.content_hash

\* C6 as amended: a new Document is prepared only when its hash differs from
\* that of the Document its own transaction read as the most recent of the
\* Source; and as long as no two transactions on one Source have been open
\* at the same time, no two Documents of a Source adjacent in fetched_at
\* order have the same content_hash.
C6_NoDuplicatesUnlessOverlapping ==
    /\ \A w \in Workers : \A d \in sess[w].newDoc : \A l \in sess[w].seen :
          d.content_hash # l.content_hash /\ d.source_id = l.source_id
    /\ ~overlap =>
          \A d, e \in documents :
              AdjacentSomewhere(d, e) => d.content_hash # e.content_hash

\* the amended C6's case: without any overlap, a Source has two versions, the
\* newer one refreshed by a later re-ingestion, and a third one is prepared
C6_Witness ==
    /\ ~overlap
    /\ \E d, e \in documents :
          /\ AdjacentSomewhere(d, e) /\ e.fetched_at > d.fetched_at + 1
          /\ d.content_hash # e.content_hash
    /\ \E w \in Workers : sess[w].pc = "store" /\ sess[w].newSrc = {}

\* C7 (concurrent re-ingestion of unchanged content): through a stretch of
\* overlapping ingestions that each bring the content of the latest Document
\* of their Source, no Document or Chunk is created, none is altered but for
\* the fetched_at of a Document that was the latest of its Source, every
\* call that has returned returned changed = FALSE and chunks_upserted = 0
\* with the id of such a Document, and the ingestions in flight are never
\* all waiting for each other.
C7_ConcurrentReingestionSafe ==
    epoch.clean =>
        /\ chunks = epoch.chunks
        /\ Cardinality(documents) = Cardinality(epoch.docs)
        /\ \A d \in documents : \E e \in epoch.docs :
              /\ Unstamped(e) = Unstamped(d)
              /\ e.fetched_at # d.fetched_at
                    => e \in LastDocs(epoch.docs, e.source_id)
        /\ \A w \in Workers :
              /\ sess[w].newDoc = {} /\ sess[w].newChunks = {}
              /\ sess[w].newSrc = {} /\ sess[w].embedded = "no"
              /\ sess[w].pc = "stored" =>
                    \E r \in sess[w].result :
                        /\ sess[w].result = {r}
                        /\ ~r.changed /\ r.chunks_upserted = 0
                        /\ \E e \in epoch.docs :
                              /\ e.id = r.document_id
                              /\ e.source_id = r.source_id
                              /\ e \in LastDocs(epoch.docs, e.source_id)
        /\ (\E w \in Workers : sess[w].pc \in {"touchflush", "stored"})
              => \E w \in Workers :
                    sess[w].pc \in {"touchflush", "stored"} /\ ~Blocked(w)

\* C7's case: two overlapping re-ingestions of the only Source have both
\* committed
C7_Witness ==
    /\ epoch.clean /\ epoch.n = 2
    /\ Cardinality(sources) = 1
    /\ \A w \in Workers : ~InFlight(w)
    /\ \E d \in documents : \E e \in epoch.docs :
          d.id = e.id /\ d.fetched_at >= e.fetched_at + 2

\* C8 (source identity): there is at most one Source row per URL and per
\* id; _upsert_source returns the existing row when the URL is present and
\* prepares no new one; no step changes the url of a Source or removes one.
OneSourcePerUrl ==
    \A s, t \in sources : (s.url = t.url \/ s.id = t.id) => s = t

C8_Reuse(w) ==
    \A url \in Urls :
        BeginIngest(w) /\ FoundSource(url) # {}
                       /\ (\E s \in sess'[w].src : s.url = url) =>
            /\ sess'[w].newSrc = {}
            /\ \E s \in sess'[w].src : \E t \in FoundSource(url) :
                  sess'[w].src = {s} /\ s.id = t.id /\ s.url = t.url

C8_SourceIdentity ==
    [][/\ OneSourcePerUrl'
       /\ \A s \in sources : \E t \in sources' : t.id = s.id /\ t.url = s.url
       /\ \A w \in Workers : C8_Reuse(w)]_vars

\* C8's case: a URL is committed while another transaction still holds a new
\* row for the same URL, about to be flushed
C8_Witness ==
    \E w \in Workers : \E n \in sess[w].newSrc : \E s \in sources :
        /\ sess[w].pc = "srcflush"
        /\ s.url = n.url /\ s.id # n.id
        /\ DocsOf(documents, s.id) # {}

-----------------------------------------------------------------------------
(* Retrieval over a stored corpus: SpecRetrieve.  The corpus is what       *)
(* ingestions of one law leave behind, content A and then content B, each  *)
(* embedded or stored with null embeddings after the embedder raised;      *)
(* every step is one call of retrieve on it.                               *)

\* the largest k of a call (answer_question clamps k to 1..10)
MaxK == 2

\* the largest ts_rank_cd value drawn
MaxRank == 2

\* cosine distances drawn: 0, 0.5 and 2 (scores 1, 0.5 and -1); the ranks
\* are 0, 0.5, 1
Dists == {0, 1, 2 * One}
Ranks == 0..MaxRank

CorpusSource == SourceRow(1, RadaUrl, _detect_kind(RadaUrl), None)
CorpusTexts == <<TextA, TextB>>

StoredDocument(i) ==
    NewDocument(i, CorpusSource, DocUrl(RadaUrl, ""), None, CorpusTexts[i], i)

StoredChunks(doc, embed_ok) ==
    LET segments == SegmentsOrWhole(SegmentsOf(doc.content_text),
                                    doc.content_text)
    IN  NewChunks(doc, segments, Embeddings(segments, embed_ok))

InitRetrieve ==
    \E n \in 0..Len(CorpusTexts) : \E ok \in [1..n -> BOOLEAN] :
        /\ sources = IF n = 0 THEN {} ELSE {CorpusSource}
        /\ documents = {StoredDocument(i) : i \in 1..n}
        /\ chunks = UNION {StoredChunks(StoredDocument(i), ok[i]) : i \in 1..n}
        /\ sess = [w \in Workers |-> NoSess]
        /\ epoch = Dirty
        /\ overlap = FALSE
            /\ ret = NoRet

\* one call retrieve(session, query, k).  Retrieval leaves the corpus as it
\* is, so the calls of a behaviour are independent and one is followed.
Retrieve ==
    /\ ret = NoRet
    /\ \E query \in Queries, k \in 1..MaxK, embed \in {"ok", "raised"} :
       \E dist \in [{c.id : c \in chunks} -> Dists],
          rank \in [{c.id : c \in chunks} -> Ranks] :
       \E vec \in Ordered(VectorRows(chunks, documents), dist),
          lex \in Ordered(LexicalRows(chunks, documents, rank),
                          [id \in {c.id : c \in chunks} |-> 0 - rank[id]]) :
          ret' = Retrieved(query, k, embed, vec, lex, dist, rank)
    /\ UNCHANGED <<sources, documents, chunks, sess, epoch, overlap>>

SpecRetrieve == InitRetrieve /\ [][Retrieve]_vars

\* C10 (top-k of the merged candidates): a call of retrieve returns at most
\* k hits, in non-increasing order of fused score, no chunk id twice; every
\* hit is a merged candidate with its score, and no merged candidate left
\* out has a score strictly greater than a hit's; fewer than k hits are
\* returned only when there are no more candidates.
C10_TopK ==
    ret.op = "retrieve" =>
        LET hits == ret.hits
            merged == ret.merged
            in(h) == \E i \in 1..Len(hits) : hits[i].chunk_id = h.chunk_id
        IN  /\ Len(hits) <= ret.k
            /\ Len(hits) = Min(ret.k, Len(merged))
            /\ \A i \in 1..(Len(hits) - 1) : hits[i].score >= hits[i + 1].score
            /\ \A i, j \in 1..Len(hits) :
                  i # j => hits[i].chunk_id # hits[j].chunk_id
            /\ \A i \in 1..Len(hits) : \E j \in 1..Len(merged) :
                  /\ merged[j].chunk_id = hits[i].chunk_id
                  /\ merged[j].score = hits[i].score
            /\ \A j \in 1..Len(merged) : \A i \in 1..Len(hits) :
                  ~in(merged[j]) => merged[j].score <= hits[i].score

\* C10's case: more than k candidates, found by both branches with different
\* scores, and the k best returned
C10_Witness ==
    /\ ret.op = "retrieve"
    /\ Len(ret.merged) > ret.k /\ Len(ret.hits) = ret.k /\ ret.k >= 2
    /\ ret.vec # <<>> /\ ret.lex # <<>>
    /\ ret.hits[1].score > ret.hits[2].score
    /\ \E j \in 1..Len(ret.merged) : ret.merged[j].score < ret.hits[2].score
    /\ ret.merged[1].score < ret.hits[1].score

\* the scores a branch's candidate list gives the chunk id
ScoresIn(found, id) ==
    {found[i].score : i \in {n \in 1..Len(found) : found[n].chunk_id = id}}

\* the hit is fused by maximum: it carries a score one of the branches gave
\* its chunk, and none of the two branches gave the chunk a greater one
FusedByMax(hit) ==
    LET given == ScoresIn(ret.vec, hit.chunk_id)
                   \cup ScoresIn(ret.lex, hit.chunk_id)
    IN  /\ hit.score \in given
        /\ \A s \in given : s <= hit.score

\* C11 (max fusion): every merged candidate, and so every hit returned, of a
\* chunk found by both the vector branch (score 1 - dist) and the lexical
\* branch (score rank) carries the greater of the two scores; a chunk found
\* by one branch only carries that branch's score; and every chunk a branch
\* found is a merged candidate.
C11_MaxFusion ==
    ret.op = "retrieve" =>
        /\ \A j \in 1..Len(ret.merged) : FusedByMax(ret.merged[j])
        /\ \A i \in 1..Len(ret.hits) : FusedByMax(ret.hits[i])
        /\ \A i \in 1..Len(ret.vec) : \E j \in 1..Len(ret.merged) :
              ret.merged[j].chunk_id = ret.vec[i].chunk_id
        /\ \A i \in 1..Len(ret.lex) : \E j \in 1..Len(ret.merged) :
              ret.merged[j].chunk_id = ret.lex[i].chunk_id

\* C11's case: one hit found by both branches with the vector score the
\* greater, one with the rank the greater, and a candidate of one branch only
C11_Witness ==
    /\ ret.op = "retrieve"
    /\ \E i \in 1..Len(ret.hits) :
          \E v \in ScoresIn(ret.vec, ret.hits[i].chunk_id),
             l \in ScoresIn(ret.lex, ret.hits[i].chunk_id) :
             v > l /\ ret.hits[i].score = v
    /\ \E i \in 1..Len(ret.hits) :
          \E v \in ScoresIn(ret.vec, ret.hits[i].chunk_id),
             l \in ScoresIn(ret.lex, ret.hits[i].chunk_id) :
             l > v /\ ret.hits[i].score = l
    /\ \E j \in 1..Len(ret.merged) :
          /\ ScoresIn(ret.vec, ret.merged[j].chunk_id) = {}
          /\ ScoresIn(ret.lex, ret.merged[j].chunk_id) # {}

\* C12 (lexical-only degradation): a call whose query embedding raised
\* returns, with no vector candidate, the first k lexical candidates by
\* rank in non-increasing order, every lexical candidate having rank > 0;
\* a call whose normalized query is empty returns the empty list and
\* reaches neither the embedder nor the database.
C12_LexicalOnly ==
    ret.op = "retrieve" =>
        /\ ret.query = "" =>
              ret.hits = <<>> /\ ret.embed = "no" /\ ~ret.queried
        /\ (ret.query # "" /\ ret.embed = "raised") =>
              /\ ret.queried
              /\ ret.vec = <<>>
              /\ \A j \in 1..Len(ret.lex) : ret.lex[j].score > 0
              /\ Len(ret.hits) = Min(ret.k, Len(ret.lex))
              /\ \A i \in 1..Len(ret.hits) : \E j \in 1..Len(ret.lex) :
                    /\ ret.lex[j].chunk_id = ret.hits[i].chunk_id
                    /\ ret.lex[j].score = ret.hits[i].score
              /\ \A i \in 1..(Len(ret.hits) - 1) :
                    ret.hits[i].score >= ret.hits[i + 1].score
              /\ \A j \in 1..Len(ret.lex) :
                    (\A i \in 1..Len(ret.hits) :
                        ret.hits[i].chunk_id # ret.lex[j].chunk_id)
                    => \A i \in 1..Len(ret.hits) :
                          ret.lex[j].score <= ret.hits[i].score

\* C12's case: the embedder raised on a corpus holding embedded chunks, more
\* lexical candidates than k were found, one chunk had rank 0, and the hits
\* came back in strictly decreasing rank
C12_Witness ==
    /\ ret.op = "retrieve" /\ ret.embed = "raised"
    /\ \E c \in chunks : c.embedding # None
    /\ Len(ret.lex) > ret.k
    /\ Len(ret.lex) < Cardinality(chunks)
    /\ ret.k = 2 => ret.hits[1].score > ret.hits[2].score
    /\ \E j \in 1..Len(ret.lex) : ret.lex[j].score < ret.hits[1].score

-----------------------------------------------------------------------------
(* _upsert_source on its own: SpecUpsert.  A session calls it with any     *)
(* url, kind and title, not only those ingest_url derives from the page,   *)
(* and commits.                                                            *)

\* Source.kind is a non-null string (default "url"); title may be NULL
Kinds == {"", "url", "zakon_rada", "kmu"}
UpsertTitles == {None, "Law", "Act"}
UpsertUrls == {RadaUrl}

\* src = _upsert_source(session, source_url=url, kind=kind, title=title)
UpsertCallOn(w, url, kind, title) ==
    /\ sess[w].pc = "idle"
    /\ sess' = [sess EXCEPT ![w] = UpsertedSession(w, url, kind, title)]
    /\ UNCHANGED <<sources, documents, chunks, epoch, overlap, ret>>

UpsertCall(w) ==
    \E url \in UpsertUrls, kind \in Kinds, title \in UpsertTitles :
        UpsertCallOn(w, url, kind, title)

\* the session block ends: session.commit()
UpsertCommit(w) ==
    /\ sess[w].pc = "store"
    /\ ~Blocked(w)
    /\ sources' = CommittedSources(w)
    /\ sess' = RolledBack(w)
    /\ UNCHANGED <<documents, chunks, epoch, overlap, ret>>

NextUpsert ==
    \E w \in Workers : UpsertCall(w) \/ FlushSource(w) \/ UpsertCommit(w)

SpecUpsert == Init /\ [][NextUpsert]_vars

\* the row a reusing call holds, and the row the same session commits
HeldRow(w, id) == CHOOSE s \in sess[w].src : s.id = id

\* C9 as stated (backfill only): when _upsert_source finds the Source, it
\* changes the stored kind only if that kind is empty or the default "url",
\* and the stored title only if that title is empty.
C9_Stated(w) ==
    \A url \in UpsertUrls, kind \in Kinds, title \in UpsertTitles :
        UpsertCallOn(w, url, kind, title) =>
            \A r \in FoundSource(url) :
                /\ sess'[w].src # {}
                /\ HeldRow(w, r.id)'.kind # r.kind => r.kind \in {"", "url"}
                /\ HeldRow(w, r.id)'.title # r.title => ~Truthy(r.title)

C9_Call(w) ==
    \A url \in UpsertUrls, kind \in Kinds, title \in UpsertTitles :
        UpsertCallOn(w, url, kind, title) =>
            \A r \in FoundSource(url) :
                /\ sess'[w].newSrc = {}
                /\ sess'[w].srcSet =
                      (IF kind # "" /\ kind # r.kind THEN {"kind"} ELSE {})
                        \cup (IF r.title \in {None, ""} /\ title \notin {None, ""}
                              THEN {"title"} ELSE {})
                /\ sess'[w].src =
                      {[id |-> r.id, url |-> r.url,
                        kind |-> IF kind # "" /\ kind # r.kind
                                 THEN kind ELSE r.kind,
                        title |-> IF r.title \in {None, ""}
                                     /\ title \notin {None, ""}
                                  THEN title ELSE r.title]}

C9_Commit(w) ==
    UpsertCommit(w) /\ sess[w].newSrc = {} =>
        \E s \in sess[w].src : \E r \in sources : \E t \in sources' :
            /\ r.id = s.id /\ t.id = s.id /\ t.url = r.url
            /\ t.kind = IF "kind" \in sess[w].srcSet THEN s.kind ELSE r.kind
            /\ t.title = IF "title" \in sess[w].srcSet THEN s.title ELSE r.title
            /\ sources' \ {t} = sources \ {r}

-----------------------------------------------------------------------------
(* _deduplicate_hits on its own: SpecDedup.  The hits are drawn from a     *)
(* pool that has every kind of key, equal keys written differently, and    *)
(* equal and missing scores; one step deduplicates the list drawn.         *)

\* the longest list of hits drawn
MaxHits == 3

Hit(document_id, chunk_id, url, heading, path, text, score) ==
    [chunk_id |-> chunk_id, document_id |-> document_id, title |-> None,
     url |-> url, path |-> path, heading |-> heading, unit_type |-> None,
     unit_id |-> None, text |-> text, score |-> score]

ShoutedUrl == [host |-> "Example.ORG", rest |-> "/law "]

HitPool ==
    << Hit(1, <<1, 0>>, RadaUrl, "Article 1", "Article 1", "low", 1),
       Hit(1, <<1, 0>>, RadaUrl, "Article 1", "Article 1", "high", 2),
       Hit(1, <<1, 0>>, RadaUrl, "Article 1", "Article 1", "tie", 2),
       Hit(2, <<2, 0>>, RadaUrl, "Article 1", "Article 1", "other", 1),
       Hit(None, <<1, 0>>, ShoutedUrl, " Article 1", None, "by url", 1),
       Hit("", "", OtherUrl, None, "article 1 ", "by path", 3),
       Hit(None, None, None, None, None, " Law ", None),
       Hit(None, None, "", "", "", "law", 0) >>

InitDedup ==
    /\ sources = {} /\ documents = {} /\ chunks = {}
    /\ sess = [w \in Workers |-> NoSess]
    /\ epoch = Dirty
    /\ overlap = FALSE
    /\ \E n \in 0..MaxHits : \E pick \in [1..n -> 1..Len(HitPool)] :
          ret = [op |-> "hits", hits |-> [i \in 1..n |-> HitPool[pick[i]]]]

\* hits = _deduplicate_hits(hits), and the same once more on the outcome
Deduplicate ==
    /\ ret.op = "hits"
    /\ ret' = [op |-> "_deduplicate_hits", hits |-> ret.hits,
               out |-> _deduplicate_hits(ret.hits),
               again |-> _deduplicate_hits(_deduplicate_hits(ret.hits))]
    /\ UNCHANGED <<sources, documents, chunks, sess, epoch, overlap>>

SpecDedup == InitDedup /\ [][Deduplicate]_vars

\* the places of the hits of key k in the list, and the one to keep: the
\* first among those of the greatest score
PlacesOf(hits, k) == {i \in 1..Len(hits) : _dedup_key(hits[i]) = k}
FirstOf(S) == CHOOSE i \in S : \A j \in S : i <= j
BestPlace(hits, k) ==
    FirstOf({i \in PlacesOf(hits, k) :
               \A j \in PlacesOf(hits, k) : ScoreOf(hits[j]) <= ScoreOf(hits[i])})

\* C13 (deduplication): the outcome of _deduplicate_hits has every key of
\* the input exactly once; the hit kept for a key is, whole, the input hit
\* of the greatest score among those of the key, the earliest of them on a
\* tie; the keys stand in the order of their first occurrence in the input;
\* and deduplicating the outcome again changes nothing.
C13_Deduplicate ==
    ret.op = "_deduplicate_hits" =>
        LET hits == ret.hits
            out == ret.out
        IN  /\ \A i \in 1..Len(hits) : \E j \in 1..Len(out) :
                  _dedup_key(out[j]) = _dedup_key(hits[i])
            /\ \A i, j \in 1..Len(out) :
                  i # j => _dedup_key(out[i]) # _dedup_key(out[j])
            /\ \A j \in 1..Len(out) :
                  /\ PlacesOf(hits, _dedup_key(out[j])) # {}
                  /\ ToString(out[j])
                       = ToString(hits[BestPlace(hits, _dedup_key(out[j]))])
            /\ \A i, j \in 1..Len(out) :
                  i < j => FirstOf(PlacesOf(hits, _dedup_key(out[i])))
                             < FirstOf(PlacesOf(hits, _dedup_key(out[j])))
            /\ ToString(ret.again) = ToString(out)

\* C13's case: three hits, two of one key with the later one scoring higher,
\* collapse to two, the better hit standing where its key first occurred
C13_Witness ==
    /\ ret.op = "_deduplicate_hits"
    /\ Len(ret.hits) = 3 /\ Len(ret.out) = 2
    /\ _dedup_key(ret.hits[1]) = _dedup_key(ret.hits[3])
    /\ ScoreOf(ret.hits[3]) > ScoreOf(ret.hits[1])
    /\ ret.out[1].text = ret.hits[3].text
    /\ ret.out[2].text = ret.hits[2].text

-----------------------------------------------------------------------------
(* answer_question over a stored corpus: SpecAnswer.  The corpus is what   *)
(* ingestions of one law leave behind: content A, then B, then A again,    *)
(* each embedded or not.  A call retrieves, then deduplicates and either   *)
(* returns the fallback or asks the completion; the completion raises or   *)
(* produces a payload, and the call returns.                               *)

AnswerTexts == <<TextA, TextB, TextA>>

StoredVersion(i) ==
    NewDocument(i, CorpusSource, DocUrl(RadaUrl, ""), None, AnswerTexts[i], i)

InitAnswer ==
    \E n \in 0..Len(AnswerTexts) : \E ok \in [1..n -> BOOLEAN] :
        /\ sources = IF n = 0 THEN {} ELSE {CorpusSource}
        /\ documents = {StoredVersion(i) : i \in 1..n}
        /\ chunks = UNION {StoredChunks(StoredVersion(i), ok[i]) : i \in 1..n}
        /\ sess = [w \in Workers |-> NoSess]
        /\ epoch = Dirty
        /\ overlap = FALSE
        /\ ret = NoRet

\* outputs of the completion
Payload(parsed, raw_text, answer_markdown, citations_used, need_more_info, questions, usage) ==
    [parsed |-> parsed, raw_text |-> raw_text,
     answer_markdown |-> answer_markdown, citations_used |-> citations_used,
     need_more_info |-> need_more_info, questions |-> questions,
     notes |-> questions, usage |-> usage]

AnswerMarkdowns ==
    { "See [2]", "By [1], [2] and [1]", "No markers",
      "Norm [1]\nneed_more_info=true", "Text [2]\nDzherela: [1]",
      " NEED_MORE_INFO = False \nText [1]",
      "need_more_info=\nneed_more_info=true\ntrue", "need_more_info=true" }
UsedLists == { <<>>, <<2>>, <<0 - 1>>, <<2, 5>>, <<2, 0 - 1, 2>> }
SomeUsage == {<<"total_tokens", 19>>}

Payloads ==
    { Payload(TRUE, "{}", a, u, f, IF f THEN <<" When? ">> ELSE <<>>, SomeUsage)
        : a \in AnswerMarkdowns, u \in UsedLists, f \in BOOLEAN }
    \cup { Payload(FALSE, s, "", <<>>, FALSE, <<>>, None)
             : s \in {"", "Plain [1]"} }

\* cosine distance and rank are functions of the chunk's text.  The tables
\* drawn here give different texts different values, or rank 0 to all (no
\* lexical match); chunks of equal text still tie, in any order.
Injective(f) == \A a, b \in DOMAIN f : a # b => f[a] # f[b]
DistTables(T) == {f \in [T -> Dists] : Injective(f)}
RankTables(T) ==
    {f \in [T -> {0, 1, 2}] : Injective(f)} \cup {[x \in T |-> 0]}
ByText(of) == [id \in {c.id : c \in chunks} |->
                  of[(CHOOSE c \in chunks : c.id = id).text]]

\* lines 153-158 of one call answer_question(..., question, max_citations):
\* the draws of retrieve are made only where it gets to them
AnswerRetrieve ==
    /\ ret = NoRet
    /\ \E question \in Queries, max_citations \in 0..MaxK :
          IF NormalizedQuery[question] = ""
          THEN ret' = Called(question, max_citations, <<>>)
          ELSE \E rank \in RankTables({c.text : c \in chunks}) :
               \E lex \in Ordered(LexicalRows(chunks, documents, ByText(rank)),
                                  [id \in {c.id : c \in chunks} |->
                                      0 - ByText(rank)[id]]) :
                  \/ ret' = Called(question, max_citations,
                                   Retrieved(question,
                                             ClampedCitations(max_citations),
                                             "raised", <<>>, lex,
                                             ByText(rank), ByText(rank)).hits)
                  \/ \E dist \in DistTables({c.text : c \in chunks}) :
                     \E vec \in Ordered(VectorRows(chunks, documents),
                                        ByText(dist)) :
                        ret' = Called(question, max_citations,
                                      Retrieved(question,
                                                ClampedCitations(max_citations),
                                                "ok", vec, lex, ByText(dist),
                                                ByText(rank)).hits)
    /\ UNCHANGED <<sources, documents, chunks, sess, epoch, overlap>>

\* lines 159-207 of that call
AnswerPrepare ==
    /\ ret.op = "answer_question" /\ ret.pc = "retrieved"
    /\ ret' = Prepared(ret)
    /\ UNCHANGED <<sources, documents, chunks, sess, epoch, overlap>>

\* lines 209-245 of that call
AnswerReturn ==
    /\ ret.op = "answer_question" /\ ret.pc = "completing"
    /\ \/ ret' = Returned(ret, "raised")
       \/ \E payload \in Payloads : ret' = Returned(ret, payload)
    /\ UNCHANGED <<sources, documents, chunks, sess, epoch, overlap>>

NextAnswer == AnswerRetrieve \/ AnswerPrepare \/ AnswerReturn

SpecAnswer == InitAnswer /\ [][NextAnswer]_vars

\* the call has its numbered hits: it waits for the completion or returned
Numbered == ret.op = "answer_question" /\ ret.pc \in {"completing", "returned"}

\* the call returned after the completion was asked
Completed == ret.op = "answer_question" /\ ret.pc = "returned"
                /\ ret.llm # "not called"

\* the heading-or-path location of a citation, as a reader compares it
LocationOf(c) ==
    Lower(Strip(IF Truthy(c.heading) THEN c.heading
                ELSE IF Truthy(c.path) THEN c.path ELSE ""))

StartsWith(s, prefix) ==
    Len(s) >= Len(prefix) /\ SubSeq(s, 1, Len(prefix)) = prefix

\* C14 (no source twice), as stated: no two numbered citations of one
\* response have both the same URL and the same heading-or-path location.
C14_NoSourceTwice ==
    Numbered =>
        \A i, j \in 1..Len(ret.citations) :
            i # j => ~(/\ ret.citations[i].url = ret.citations[j].url
                       /\ LocationOf(ret.citations[i])
                            = LocationOf(ret.citations[j]))

\* C15 (citation filtering): the citations a call returns are those of its
\* numbered citations whose number is among the used numbers, each once, in
\* ascending order of number; a used number that numbers no hit gives no
\* citation, and a call that did not ask the completion returns none.
C15_FilteredCitations ==
    (ret.op = "answer_question" /\ ret.pc = "returned") =>
        LET given == ret.result.citations
            used == {ret.used_numbers[i] : i \in 1..Len(ret.used_numbers)}
        IN  /\ \A j \in 1..Len(given) : \E i \in 1..Len(ret.citations) :
                  given[j] = ret.citations[i]
            /\ \A i \in 1..Len(ret.citations) :
                  ret.citations[i].n \in used
                     <=> \E j \in 1..Len(given) : given[j] = ret.citations[i]
            /\ \A j \in 1..(Len(given) - 1) : given[j].n < given[j + 1].n
            /\ \A j \in 1..Len(given) : given[j].n \in 1..Len(ret.hits)
            /\ ret.llm = "not called" => given = <<>>

\* C15's case: two hits numbered, the completion names 2 and a number that
\* numbers nothing, and only citation 2 is returned
C15_Witness ==
    /\ Completed /\ ret.llm = "ok"
    /\ Len(ret.citations) = 2
    /\ \E i \in 1..Len(ret.used_numbers) : ret.used_numbers[i] = 2
    /\ \E i \in 1..Len(ret.used_numbers) : ret.used_numbers[i] > 2
    /\ Len(ret.result.citations) = 1 /\ ret.result.citations[1].n = 2

\* C16 (numbering): the deduplicated hits (no key twice) are numbered 1..m in
\* their order; block i is labelled [i] and carries hit i's URL and text,
\* hint line i is labelled [i] and names hit i's URL, citation i has n = i
\* and hit i's ids; the context sent is those blocks or, clipped, a prefix of
\* their join; and a citation returned with number n is that of hit n.
C16_ConsistentNumbering ==
    Numbered =>
        LET hits == ret.hits
            m == Len(hits)
            joined == JoinedWith("\n\n", ret.blocks)
        IN  /\ \A i, j \in 1..m :
                  i # j => _dedup_key(hits[i]) # _dedup_key(hits[j])
            /\ \A i \in 1..m : \E j \in 1..Len(ret.retrieved) :
                  ret.retrieved[j].chunk_id = hits[i].chunk_id
            /\ Len(ret.blocks) = m /\ Len(ret.citations_hint_lines) = m
            /\ Len(ret.citations) = m
            /\ \A i \in 1..m :
                  /\ StartsWith(ret.blocks[i], "[" \o ToString(i) \o "] ")
                  /\ EndsWith(ret.blocks[i],
                              "\nURL: " \o UrlStr(hits[i].url)
                                 \o "\nFragment:\n" \o hits[i].text)
                  /\ StartsWith(ret.citations_hint_lines[i],
                                "[" \o ToString(i) \o "] = "
                                   \o UrlStr(hits[i].url))
                  /\ ret.citations[i].n = i
                  /\ ret.citations[i].document_id = ToString(hits[i].document_id)
                  /\ ret.citations[i].chunk_id = ToString(hits[i].chunk_id)
            /\ \/ ret.context_blocks = ret.blocks
               \/ /\ Len(ret.context_blocks) = 1
                  /\ Len(joined) > max_context_chars
                  /\ EndsWith(ret.context_blocks[1], "\n" \o Ellipsis)
                  /\ StartsWith(joined,
                                SubSeq(ret.context_blocks[1], 1,
                                       Len(ret.context_blocks[1]) - 2))
            /\ ret.pc = "returned" =>
                  \A j \in 1..Len(ret.result.citations) :
                     LET c == ret.result.citations[j]
                     IN  /\ c.n \in 1..m
                         /\ c.chunk_id = ToString(hits[c.n].chunk_id)
                         /\ c.document_id = ToString(hits[c.n].document_id)

\* C16's case: two hits of different documents numbered, the context sent
\* unclipped, the completion citing [2], and citation 2 returned
C16_Witness ==
    /\ Completed /\ ret.llm = "ok"
    /\ Len(ret.hits) = 2 /\ ret.context_blocks = ret.blocks
    /\ ret.hits[1].document_id # ret.hits[2].document_id
    /\ Len(ret.result.citations) = 1 /\ ret.result.citations[1].n = 2

\* the completion failed: it raised after its retries, or gave no text
NoAnswerText ==
    Completed /\ (ret.llm = "raised" \/ Strip(ret.llm_out.answer_markdown) = "")

\* C17 (completion failure), as stated: a call whose completion raised or
\* gave no answer text returns a non-empty answer built from the excerpts
\* and an empty citation list.
C17_FailureGivesNoCitations ==
    NoAnswerText =>
        /\ ret.result.answer # ""
        /\ ret.result.citations = <<>>

\* the places of the [n] markers of n in the text
MarkersOf(text, n) == {i \in 1..Len(text) : CitAt(text, i) = n}

\* the numbers are those of the text's [n] markers, each once, in the order
\* of their first appearance
ScannedFrom(nums, text) ==
    /\ \A i, j \in 1..Len(nums) : i # j => nums[i] # nums[j]
    /\ \A i \in 1..Len(nums) : nums[i] >= 0 /\ MarkersOf(text, nums[i]) # {}
    /\ \A p \in 1..Len(text) :
          CitAt(text, p) >= 0 => \E i \in 1..Len(nums) : nums[i] = CitAt(text, p)
    /\ \A i, j \in 1..Len(nums) :
          i < j => FirstOf(MarkersOf(text, nums[i]))
                     < FirstOf(MarkersOf(text, nums[j]))

\* C18 (used numbers), as stated: when the completion's list of used numbers
\* is empty the used numbers are those scanned from the answer text, and
\* when it is not empty they are the list as given.
C18_ListUsedAsGiven ==
    (Completed /\ ret.llm = "ok") =>
        IF ret.llm_out.citations_used = <<>>
        THEN ScannedFrom(ret.used_numbers, ret.result.answer)
        ELSE ret.used_numbers = ret.llm_out.citations_used

\* C18, amended: the completion's list is first reduced to its entries that
\* are not negative; when nothing is left the used numbers are those scanned
\* from the answer text returned, and otherwise they are the reduced list,
\* whatever markers the text has.
C18_UsedNumbers ==
    (Completed /\ ret.llm = "ok") =>
        LET listed == SelectSeq(ret.llm_out.citations_used, LAMBDA x : x >= 0)
        IN  IF listed = <<>>
            THEN ScannedFrom(ret.used_numbers, ret.result.answer)
            ELSE ret.used_numbers = listed

\* C18's case: the completion lists only a negative number, its text has a
\* marker, and the used numbers are the marker's
C18_Witness ==
    /\ Completed /\ ret.llm = "ok"
    /\ ret.llm_out.citations_used = <<0 - 1>>
    /\ ret.used_numbers # <<>>
    /\ ScannedFrom(ret.used_numbers, ret.result.answer)

\* C19 (empty retrieval): a call whose deduplicated hits are empty has
\* returned, without asking the completion, a result with a non-empty
\* answer, no citation and empty usage.
C19_EmptyRetrieval ==
    (Numbered /\ ret.hits = <<>>) =>
        /\ ret.pc = "returned"
        /\ ret.llm = "not called"
        /\ ret.result.answer # ""
        /\ ret.result.citations = <<>>
        /\ ret.result.usage = EmptyDict

\* C19's case: a stored corpus, a question that is not blank, and nothing
\* retrieved
C19_Witness ==
    /\ Numbered /\ ret.hits = <<>> /\ ret.pc = "returned"
    /\ chunks # {}
    /\ NormalizedQuery[ret.question] # ""

\* C20 (follow-ups), as stated: the result of a call whose completion
\* answered carries the completion's need_more_info flag and its questions.
C20_ResultCarriesFollowups ==
    (Completed /\ ret.llm = "ok") =>
        /\ "need_more_info" \in DOMAIN ret.result
        /\ "questions" \in DOMAIN ret.result
        /\ ret.result.need_more_info = ret.llm_out.need_more_info
        /\ ret.result.questions = ret.llm_out.questions

\* the place of the last character of s[1..n] that is no whitespace, or 0
LastInk(s, n) ==
    IF \E i \in 1..n : Char(s, i) \notin PyWhitespace
    THEN CHOOSE i \in 1..n :
            /\ Char(s, i) \notin PyWhitespace
            /\ \A j \in (i + 1)..n : Char(s, j) \in PyWhitespace
    ELSE 0

\* C29 (context budget): the context handed to the completion is never
\* longer than max_context_chars plus the two characters of the marker; when
\* the joined blocks are longer than the budget the context is one block,
\* the first max_context_chars characters of the joined blocks without their
\* trailing whitespace and with the marker appended; the citation hint has
\* one line per hit either way.
C29_ContextBudget ==
    Numbered =>
        LET joined == JoinedWith("\n\n", ret.blocks)
            handed == JoinedWith("\n", ret.context_blocks)
        IN  /\ Len(handed) <= max_context_chars + 2
            /\ Len(ret.citations_hint_lines) = Len(ret.hits)
            /\ Len(joined) > max_context_chars =>
                  /\ Len(ret.context_blocks) = 1
                  /\ ret.context_blocks[1] =
                        SubSeq(joined, 1, LastInk(joined, max_context_chars))
                          \o "\n" \o Ellipsis
            /\ Len(joined) <= max_context_chars =>
                  ret.context_blocks = ret.blocks

\* C29's case: two hits whose joined blocks are over the budget
C29_Witness ==
    /\ Numbered
    /\ Len(ret.hits) >= 2
    /\ Len(JoinedWith("\n\n", ret.blocks)) > max_context_chars
    /\ Len(ret.context_blocks) = 1

-----------------------------------------------------------------------------
(* SpecQuote: the citation record of one hit, lines 186-199 of             *)
(* answer_question, for hit texts of lengths around the 320 characters of  *)
(* the quote.                                                              *)

\* the longest hit text drawn; retrieve hands over texts of up to 900
MaxQuoteLen == 345

\* texts of n characters: one word, or two words with the blank where the
\* quote is cut
QuoteTexts ==
    {Rep("a", n) : n \in (MaxQuoteLen - 55)..MaxQuoteLen}
    \cup {Rep("a", QuoteChars - 1) \o " " \o Rep("a", n - QuoteChars)
            : n \in (QuoteChars + 1)..MaxQuoteLen}
    \cup {Rep("a", 40) \o " " \o Rep("a", n - 41) : n \in 42..80}

InitQuote ==
    /\ sources = {} /\ documents = {} /\ chunks = {}
    /\ sess = [w \in Workers |-> NoSess]
    /\ epoch = Dirty
    /\ overlap = FALSE
    /\ \E text \in QuoteTexts :
          ret = [op |-> "hit",
                 hit |-> Hit(1, <<1, 0>>, RadaUrl, "Article 1", "Article 1",
                             text, 1)]

\* citations.append(Citation(n=i, ...).model_dump(mode="json")) for the hit
Cite ==
    /\ ret.op = "hit"
    /\ ret' = [op |-> "Citation", hit |-> ret.hit,
               citation |-> Citation(1, ret.hit)]
    /\ UNCHANGED <<sources, documents, chunks, sess, epoch, overlap>>

SpecQuote == InitQuote /\ [][Cite]_vars

\* C30 (quote length), as stated: a citation's quote has at most 320
\* characters in all; it ends with the ellipsis when the hit's text was
\* longer than that and is the hit's text otherwise.
C30_QuoteAtMost320 ==
    ret.op = "Citation" =>
        LET quote == ret.citation.quote
        IN  /\ Len(quote) <= QuoteChars
            /\ Len(ret.hit.text) > QuoteChars =>
                  Char(quote, Len(quote)) = Ellipsis
            /\ Len(ret.hit.text) <= QuoteChars => quote = ret.hit.text

-----------------------------------------------------------------------------
(* SpecFetch: ingest.fetch_url under its @retry decorator.  One call makes *)
(* HTTP attempts; each ends in a response or in an exception of            *)
(* requests.get, and the decorator decides whether another follows.        *)

\* stop=stop_after_attempt(3)
MaxAttempts == 3

\* how an attempt of requests.get(url, ..., allow_redirects=True) may end: a
\* response with its status and the URL it was at last served from, a
\* requests.ConnectionError, or an exception that is no RequestException
Response(status, url) == [kind |-> "response", status |-> status, url |-> url]
Statuses == {200, 404, 503}
Attempts ==
    {Response(s, u) : s \in Statuses, u \in Urls}
    \cup {[kind |-> "ConnectionError"], [kind |-> "OtherError"]}

\* r.raise_for_status(): requests.HTTPError for a status from 400 to 599
raise_for_status(r) ==
    IF r.status >= 400 /\ r.status < 600 THEN [kind |-> "HTTPError",
                                                 status |-> r.status]
    ELSE [kind |-> "none"]

\* what one run of the function body raises, "none" when it returns
Raised(attempt) ==
    IF attempt.kind = "response" THEN raise_for_status(attempt) ELSE attempt

\* retry=retry_if_exception_type((requests.RequestException,)): HTTPError
\* and ConnectionError are both RequestExceptions
retry_if_exception_type(exc) == exc.kind \in {"ConnectionError", "HTTPError"}

\* wait_exponential(multiplier=1, min=1, max=10) before attempt n + 1
wait_exponential(n) ==
    LET exp == 2 ^ (n - 1)
        low == IF exp <= 10 THEN exp ELSE 10
    IN  IF low >= 1 THEN low ELSE 1

InitFetch ==
    /\ sources = {} /\ documents = {} /\ chunks = {}
    /\ sess = [w \in Workers |-> NoSess]
    /\ epoch = Dirty
    /\ overlap = FALSE
    /\ ret = NoRet

\* fetch_url(url) is called
FetchCall ==
    /\ ret = NoRet
    /\ \E url \in Urls :
          ret' = [op |-> "fetch_url", pc |-> "sending", url |-> url,
                  log |-> <<>>, slept |-> <<>>, result |-> None]
    /\ UNCHANGED <<sources, documents, chunks, sess, epoch, overlap>>

\* one run of the body, lines 81-91, and the decorator's decision on it
FetchAttempt ==
    /\ ret.op = "fetch_url" /\ ret.pc = "sending"
    /\ \E attempt \in Attempts :
          LET log == Append(ret.log, attempt)
              exc == Raised(attempt)
          IN  ret' =
                IF exc.kind = "none"
                THEN [ret EXCEPT !.log = log, !.pc = "returned",
                                 !.result = [final_url |-> attempt.url]]
                ELSE IF retry_if_exception_type(exc) /\ Len(log) < MaxAttempts
                THEN [ret EXCEPT !.log = log, !.pc = "sleeping",
                                 !.slept = Append(@, wait_exponential(Len(log)))]
                ELSE [ret EXCEPT !.log = log, !.pc = "raised",
                                 !.result = exc]
    /\ UNCHANGED <<sources, documents, chunks, sess, epoch, overlap>>

\* the wait is over
FetchWake ==
    /\ ret.op = "fetch_url" /\ ret.pc = "sleeping"
    /\ ret' = [ret EXCEPT !.pc = "sending"]
    /\ UNCHANGED <<sources, documents, chunks, sess, epoch, overlap>>

NextFetch == FetchCall \/ FetchAttempt \/ FetchWake

SpecFetch == InitFetch /\ [][NextFetch]_vars

IsClientError(attempt) ==
    attempt.kind = "response" /\ attempt.status >= 400 /\ attempt.status < 500

\* C21 (fetch retries), as stated: a call makes at most 3 attempts; a
\* network failure is followed by another attempt until the third, after
\* which it is raised; a successful attempt is the last and returns the
\* final URL; an attempt answered with a 4xx status is the last and the call
\* fails.
C21_ClientErrorNotRetried ==
    ret.op = "fetch_url" =>
        /\ Len(ret.log) <= MaxAttempts
        /\ \A i \in 1..Len(ret.log) :
              /\ ret.log[i].kind = "ConnectionError" =>
                    IF i < MaxAttempts
                    THEN i < Len(ret.log) \/ ret.pc = "sleeping"
                    ELSE ret.pc = "raised"
              /\ (ret.log[i].kind = "response" /\ ret.log[i].status < 400) =>
                    /\ i = Len(ret.log) /\ ret.pc = "returned"
                    /\ ret.result.final_url = ret.log[i].url
              /\ IsClientError(ret.log[i]) =>
                    i = Len(ret.log) /\ ret.pc = "raised"

-----------------------------------------------------------------------------
(* shared/ingest.py : segment_legal_text.  The Ukrainian and Russian words *)
(* of the patterns are written in Latin letters: Rozdil/Razdel (section),  *)
(* Glava (chapter), Stattya/Statya (article), Punkt (point).               *)

\* settings.chunk_size_chars and settings.chunk_overlap_chars, as configured
\* here; the defaults are 1200 and 200
chunk_size_chars == 24
chunk_overlap_chars == 4

\* [0-9], and the letters of str.isalpha()
Digits == DOMAIN DigitOf
Letters == WordChars \ (Digits \cup {"_"})

\* the place after the longest run of characters of the class from place i
RunEnd(s, i, class) ==
    CHOOSE j \in i..(Len(s) + 1) :
        /\ Char(s, j) \notin class
        /\ \A n \in i..(j - 1) : Char(s, n) \in class

\* ^(word)\s+ under re.IGNORECASE for one of the words: the place after the
\* whitespace, or 0
AfterWord(ln, words) ==
    LET found == {w \in words : /\ Len(ln) > Len(w)
                                 /\ Lower(SubSeq(ln, 1, Len(w))) = w
                                 /\ Char(ln, Len(w) + 1) \in PyWhitespace}
    IN  IF found = {} THEN 0
        ELSE RunEnd(ln, Len(CHOOSE w \in found : TRUE) + 1, PyWhitespace)

\* \b at place p, after a word character
Boundary(s, p) == Char(s, p) \notin WordChars

\* ([IVXLC\d]+)\b from place i under re.IGNORECASE: the number, or ""
RomanAt(ln, i) ==
    LET class == {"I", "V", "X", "L", "C", "i", "v", "x", "l", "c"} \cup Digits
        j == RunEnd(ln, i, class)
    IN  IF i > 0 /\ j > i /\ Boundary(ln, j) THEN SubSeq(ln, i, j - 1) ELSE ""

\* _RE_SECTION.match(ln): group 2, or "" when the line does not match
_RE_SECTION(ln) == RomanAt(ln, AfterWord(ln, {"rozdil", "razdel"}))

\* _RE_CHAPTER.match(ln): group 2, or ""
_RE_CHAPTER(ln) == RomanAt(ln, AfterWord(ln, {"glava"}))

\* [0-9]+(?:[-][0-9]+)? from place i, taken as long as it can be: the place
\* after it, or i when no digit stands at i
NumberEnd(ln, i) ==
    LET j == RunEnd(ln, i, Digits)
        k == RunEnd(ln, j + 1, Digits)
    IN  IF j > i /\ Char(ln, j) = "-" /\ k > j + 1 THEN k ELSE j

NoMatch == [matched |-> FALSE, id |-> "", title |-> ""]

\* _RE_ARTICLE.match(ln): groups 2 and 3.  After the number the line ends
\* or a full stop follows; a number cut before its "-" is followed by
\* neither.  (The superscript digits are not drawn.)
_RE_ARTICLE(ln) ==
    LET i == AfterWord(ln, {"stattya", "statya"})
        p == NumberEnd(ln, i)
    IN  IF i = 0 \/ p = i THEN NoMatch
        ELSE IF p = Len(ln) + 1
        THEN [matched |-> TRUE, id |-> SubSeq(ln, i, p - 1), title |-> ""]
        ELSE IF Char(ln, p) = "."
        THEN [matched |-> TRUE, id |-> SubSeq(ln, i, p - 1),
              title |-> SubSeq(ln, RunEnd(ln, p + 1, PyWhitespace), Len(ln))]
        ELSE NoMatch

\* _RE_POINT_WORD.match(ln): group 2, or "".  The number with its "-" part
\* if a boundary follows that, else the digits before the "-".
_RE_POINT_WORD(ln) ==
    LET i == AfterWord(ln, {"punkt"})
        j == RunEnd(ln, i, Digits)
        p == NumberEnd(ln, i)
    IN  IF i = 0 \/ j = i THEN ""
        ELSE IF Boundary(ln, p) THEN SubSeq(ln, i, p - 1)
        ELSE IF Boundary(ln, j) THEN SubSeq(ln, i, j - 1)
        ELSE ""

\* _RE_POINT_NUM.match(ln): group 1, or ""
_RE_POINT_NUM(ln) ==
    LET j == RunEnd(ln, 1, Digits)
        k == RunEnd(ln, j + 1, PyWhitespace)
    IN  IF j > 1 /\ j <= 4 /\ Char(ln, j) = "." /\ k > j + 1 /\ k <= Len(ln)
        THEN SubSeq(ln, 1, j - 1) ELSE ""

\* more than nine in ten of the letters are capitals
_is_upper_title(line) ==
    LET letters == {i \in 1..Len(line) : Char(line, i) \in Letters}
        upper == {i \in letters : Char(line, i) \in DOMAIN LowerOf}
    IN  /\ Len(line) >= 5
        /\ letters # {}
        /\ 10 * Cardinality(upper) > 9 * Cardinality(letters)

\* text.splitlines() of a normalised text, whose only line ends are "\n"
RECURSIVE splitlines(_)
splitlines(text) ==
    IF text = "" THEN <<>>
    ELSE LET j == RunEnd(text, 1, {Char(text, i) : i \in 1..Len(text)} \ {"\n"})
         IN  IF j >= Len(text) THEN <<SubSeq(text, 1, j - 1)>>
             ELSE <<SubSeq(text, 1, j - 1)>>
                    \o splitlines(SubSeq(text, j + 1, Len(text)))

\* lines 401-402: the stripped lines that are not empty
LinesOf(text) ==
    LET raw == splitlines(text)
    IN  SelectSeq([i \in 1..Len(raw) |-> Strip(raw[i])], LAMBDA ln : ln # "")

\* art_hits and p_hits of lines 408 and 413
art_hits(lines) ==
    Cardinality({i \in 1..Len(lines) : _RE_ARTICLE(lines[i]).matched})
p_hits(lines) ==
    Cardinality({i \in 1..Len(lines) :
                   _RE_POINT_WORD(lines[i]) # "" \/ _RE_POINT_NUM(lines[i]) # ""})

\* a selection that takes one article line for a law
ModeOnOneArticle(lines) ==
    IF art_hits(lines) >= 1 THEN "article"
    ELSE IF p_hits(lines) >= 3 THEN "point" ELSE "plain"

\* lines 404-414 with prefer_mode None, as every caller leaves it
ModeOf(lines) ==
    IF art_hits(lines) >= 2 THEN "article"
    ELSE IF p_hits(lines) >= 3 THEN "point" ELSE "plain"

\* the variables of the scan as it starts, lines 416-433
ScanStart ==
    [segments |-> <<>>,
     section_id |-> None, section_title |-> None,
     chapter_id |-> None, chapter_title |-> None,
     have_seen_unit |-> FALSE, preface_lines |-> <<>>,
     pending_between |-> <<>>,
     cur_open |-> FALSE,              \* cur_lines is not None
     cur_unit_type |-> None, cur_unit_id |-> None, cur_heading |-> None,
     cur_lines |-> <<>>,
     prev_was_section |-> FALSE, prev_was_chapter |-> FALSE]

\* a label that leaves the title out
Untitled(word, id, title) == word \o " " \o id

Labelled(word, id, title) ==
    IF Truthy(title) THEN word \o " " \o id \o " (" \o title \o ")"
    ELSE word \o " " \o id

\* a path of the unit's own label alone
OwnLabelOnly(st) ==
    IF st.cur_unit_type = "article" THEN "Stattya " \o st.cur_unit_id
    ELSE "Punkt " \o st.cur_unit_id

cur_path(st) ==
    LET parts ==
          (IF Truthy(st.section_id)
           THEN <<Labelled("Rozdil", st.section_id, st.section_title)>>
           ELSE <<>>)
          \o (IF Truthy(st.chapter_id)
              THEN <<Labelled("Glava", st.chapter_id, st.chapter_title)>>
              ELSE <<>>)
          \o (IF st.cur_unit_type = "article" /\ Truthy(st.cur_unit_id)
              THEN <<"Stattya " \o st.cur_unit_id>> ELSE <<>>)
          \o (IF st.cur_unit_type = "point" /\ Truthy(st.cur_unit_id)
              THEN <<"Punkt " \o st.cur_unit_id>> ELSE <<>>)
    IN  IF parts = <<>> THEN None ELSE JoinedWith(" / ", parts)

\* flush_current(), called where cur_lines is not None
flush_current(st) ==
    [st EXCEPT
       !.segments =
           IF st.cur_open /\ st.cur_lines # <<>>
           THEN Append(@, [text |-> normalize_text(JoinedWith("\n", st.cur_lines)),
                           path |-> cur_path(st), heading |-> st.cur_heading,
                           unit_type |-> st.cur_unit_type,
                           unit_id |-> st.cur_unit_id, part |-> 0])
           ELSE @,
       !.cur_open = FALSE, !.cur_lines = <<>>,
       !.cur_unit_type = None, !.cur_unit_id = None, !.cur_heading = None]

Closed(st) == IF st.cur_open THEN flush_current(st) ELSE st

\* a scan that drops the line
Dropped(st, ln) == st

\* the line joins the preface before the first unit and the pending lines
\* after it
Buffered(st, ln) ==
    IF ~st.have_seen_unit
    THEN [st EXCEPT !.preface_lines = Append(@, ln)]
    ELSE [st EXCEPT !.pending_between = Append(@, ln)]

\* lines 531-535 and 558-562: the first unit sends the preface off
PrefaceOut(st) ==
    IF st.have_seen_unit THEN st
    ELSE [st EXCEPT
            !.have_seen_unit = TRUE,
            !.segments =
                IF st.preface_lines # <<>>
                THEN Append(@, Seg(normalize_text(JoinedWith("\n", st.preface_lines)),
                                   "preamble", "0"))
                ELSE @,
            !.preface_lines = <<>>]

\* lines 531-551 and 558-575: a unit starts at the line
Started(st, unit_type, unit_id, heading, ln) ==
    LET closed == Closed(PrefaceOut(st))
    IN  [closed EXCEPT
           !.cur_open = TRUE,
           !.cur_unit_type = unit_type, !.cur_unit_id = unit_id,
           !.cur_heading = heading,
           !.cur_lines = closed.pending_between \o <<ln>>,
           !.pending_between = <<>>]

\* lines 553-557 as they would be with point units in point mode only
PointModeOnly(ln, mode) ==
    mode = "point" /\ (_RE_POINT_WORD(ln) # "" \/ _RE_POINT_NUM(ln) # "")

\* lines 553-557: Punkt lines start a unit in point and in plain mode,
\* numbered lines in point mode only
StartsPoint(ln, mode) ==
    /\ mode \in {"point", "plain"}
    /\ \/ _RE_POINT_WORD(ln) # ""
       \/ (_RE_POINT_NUM(ln) # "" /\ mode = "point")

\* the body of the loop over the lines, 473-585
Scanned(st, ln, mode) ==
    LET plain == [st EXCEPT !.prev_was_section = FALSE,
                            !.prev_was_chapter = FALSE]
        mart == _RE_ARTICLE(ln)
        mpw == _RE_POINT_WORD(ln)
    IN  IF _RE_SECTION(ln) # ""
        THEN Buffered([Closed(st) EXCEPT
                          !.section_id = normalize_text(_RE_SECTION(ln)),
                          !.section_title = None,
                          !.prev_was_section = TRUE,
                          !.prev_was_chapter = FALSE], ln)
        ELSE IF _RE_CHAPTER(ln) # ""
        THEN Buffered([Closed(st) EXCEPT
                          !.chapter_id = normalize_text(_RE_CHAPTER(ln)),
                          !.chapter_title = None,
                          !.prev_was_section = FALSE,
                          !.prev_was_chapter = TRUE], ln)
        ELSE IF st.prev_was_section /\ _is_upper_title(ln)
        THEN Buffered([st EXCEPT !.section_title = ln,
                                 !.prev_was_section = FALSE], ln)
        ELSE IF st.prev_was_chapter /\ _is_upper_title(ln)
        THEN Buffered([st EXCEPT !.chapter_title = ln,
                                 !.prev_was_chapter = FALSE], ln)
        ELSE IF mode = "article" /\ mart.matched
        THEN LET id == normalize_text(mart.id)
                 title_part == Strip(mart.title)
             IN  Started(plain, "article", id,
                         normalize_text("Stattya " \o id
                            \o (IF title_part # "" THEN ". " \o title_part
                                ELSE "")),
                         ln)
        ELSE IF StartsPoint(ln, mode)
        THEN LET id == normalize_text(IF mpw # "" THEN mpw
                                      ELSE _RE_POINT_NUM(ln))
             IN  Started(plain, "point", id, normalize_text("Punkt " \o id), ln)
        ELSE IF ~plain.have_seen_unit
        THEN [plain EXCEPT !.preface_lines = Append(@, ln)]
        ELSE IF ~plain.cur_open
        THEN [plain EXCEPT !.pending_between = Append(@, ln)]
        ELSE [plain EXCEPT !.cur_lines = Append(@, ln)]

RECURSIVE ScannedAll(_, _, _)
ScannedAll(st, lines, mode) ==
    IF lines = <<>> THEN st
    ELSE ScannedAll(Scanned(st, Head(lines), mode), Tail(lines), mode)

\* lines 587-596: what the scan leaves is closed and sent off
Finished(st) ==
    LET closed == Closed(st)
        whole == IF closed.preface_lines # <<>> /\ closed.segments = <<>>
                 THEN << Seg(normalize_text(JoinedWith("\n", closed.preface_lines)),
                             "chunk", "0") >>
                 ELSE closed.segments
    IN  IF closed.pending_between # <<>>
        THEN Append(whole,
                    Seg(normalize_text(JoinedWith("\n", closed.pending_between)),
                        "tail", "0"))
        ELSE whole

\* the while loop of utils.chunk_text from place i (counted from 0)
RECURSIVE Windows(_, _, _, _)
Windows(text, i, chunk_size, chunk_overlap) ==
    LET n == Len(text)
        j == IF i + chunk_size <= n THEN i + chunk_size ELSE n
        chunk == Strip(SubSeq(text, i + 1, j))
        here == IF chunk # "" THEN <<chunk>> ELSE <<>>
    IN  IF i >= n THEN <<>>
        ELSE IF j = n THEN here
        ELSE here \o Windows(text, IF j - chunk_overlap >= 0 THEN j - chunk_overlap ELSE 0,
                             chunk_size, chunk_overlap)

\* a cut whose first window is longer by the overlap
LongFirstWindow(text, chunk_size, chunk_overlap) ==
    LET t == normalize_text(text)
    IN  IF Len(t) <= chunk_size + chunk_overlap THEN <<t>>
        ELSE <<SubSeq(t, 1, chunk_size + chunk_overlap)>>
               \o Windows(t, chunk_size, chunk_size, chunk_overlap)

chunk_text(text, chunk_size, chunk_overlap) ==
    LET t == normalize_text(text)
    IN  IF chunk_size <= 0 THEN <<t>>
        ELSE Windows(t, 0, chunk_size,
                     IF chunk_overlap >= chunk_size THEN chunk_size \div 4
                     ELSE chunk_overlap)

\* every segment passed on as it is
Uncut(seg) == <<seg>>

\* lines 600-615 for one segment
Parts(seg) ==
    IF Len(seg.text) <= chunk_size_chars * 2 THEN <<seg>>
    ELSE LET parts == chunk_text(seg.text, chunk_size_chars, chunk_overlap_chars)
         IN  [pi \in 1..Len(parts) |->
                 [seg EXCEPT !.text = parts[pi], !.part = pi - 1]]

RECURSIVE PartsOfAll(_)
PartsOfAll(segments) ==
    IF segments = <<>> THEN <<>>
    ELSE Parts(Head(segments)) \o PartsOfAll(Tail(segments))

\* the lines, the mode, the segments of line 596 before the long ones are
\* cut, and the list returned
Segmentation(text) ==
    LET lines == LinesOf(normalize_text(text))
        mode == ModeOf(lines)
        units == IF lines = <<>> THEN <<>>        \* if not text: return []
                 ELSE Finished(ScannedAll(ScanStart, lines, mode))
    IN  [lines |-> lines, mode |-> mode, units |-> units,
         out |-> PartsOfAll(units)]

segment_legal_text(text) == Segmentation(text).out

-----------------------------------------------------------------------------
(* SpecSegment: one call of segment_legal_text on a text of a few lines.   *)

\* the most lines of a text
MaxLines == 4

\* the lines texts are made of: markers, a title in capitals, article lines
\* (with a title, bare and unnormalised, in capitals, and one that is none
\* because no full stop follows its number), point lines, and plain ones
LinePool ==
    << "Rozdil I", "Razdel II", "ZAGALNI POLOZHENNYA", "Glava 2", "Stattya 6-1. Pravo",
       " stattya  6.", "STATTYA 8. PRAVA", "Stattya 9 bez", "Punkt 3 tekst punktu tretoho",
       "1. persha", "zvychaynyy tekst", "" >>

InitSegment ==
    /\ sources = {} /\ documents = {} /\ chunks = {}
    /\ sess = [w \in Workers |-> NoSess]
    /\ epoch = Dirty
    /\ overlap = FALSE
    /\ \E n \in 0..MaxLines : \E pick \in [1..n -> 1..Len(LinePool)] :
          ret = [op |-> "text",
                 text |-> JoinedWith("\n", [i \in 1..n |-> LinePool[pick[i]]])]

\* segs = segment_legal_text(text): the list returned is out; the lines, the
\* mode and the segments before the cut are kept beside it
Segment ==
    /\ ret.op = "text"
    /\ \E done \in {Segmentation(ret.text)} :
          ret' = [op |-> "segment_legal_text", text |-> ret.text,
                  lines |-> done.lines, mode |-> done.mode,
                  units |-> done.units, out |-> done.out]
    /\ UNCHANGED <<sources, documents, chunks, sess, epoch, overlap>>

SpecSegment == InitSegment /\ [][Segment]_vars

Segmented == ret.op = "segment_legal_text"

\* the lines of the text that match the Article pattern, and those that
\* match the Point-word or the numbered-line pattern
ArticleLines == {i \in 1..Len(ret.lines) : _RE_ARTICLE(ret.lines[i]).matched}
PointLines ==
    {i \in 1..Len(ret.lines) :
        _RE_POINT_WORD(ret.lines[i]) # "" \/ _RE_POINT_NUM(ret.lines[i]) # ""}
OfType(segments, unit_type) ==
    {i \in 1..Len(segments) : segments[i].unit_type = unit_type}

\* C22 (mode selection): the mode is article exactly when at least 2 lines
\* match the Article pattern; otherwise it is point exactly when at least 3
\* lines match the Point-word or numbered-line pattern; otherwise plain.  A
\* text with fewer than 2 Article lines yields no article-type segment.
C22_ModeSelection ==
    Segmented =>
        /\ ret.mode = "article" <=> Cardinality(ArticleLines) >= 2
        /\ Cardinality(ArticleLines) < 2 =>
              /\ ret.mode = "point" <=> Cardinality(PointLines) >= 3
              /\ ret.mode \in {"point", "plain"}
              /\ OfType(ret.out, "article") = {}

\* C22's case: one Article line among three point lines, and point mode
C22_Witness ==
    /\ Segmented
    /\ Cardinality(ArticleLines) = 1
    /\ Cardinality(PointLines) >= 3
    /\ ret.mode = "point"
    /\ OfType(ret.out, "point") # {}

\* the i-th smallest member of a set of numbers
Nth(S, i) == CHOOSE k \in S : Cardinality({j \in S : j < k}) = i - 1

\* C23 (article mode), as stated: in article mode there are as many
\* article-type segments as Article lines, the i-th with the number of the
\* i-th Article line as unit_id and "Stattya N" plus the optional title as
\* heading; one preamble segment with unit_id "0" comes first exactly when a
\* line stands before the first Article line, and there is no other.
C23_ArticlePerArticleLine ==
    (Segmented /\ ret.mode = "article") =>
        LET arts == OfType(ret.units, "article")
            pre == OfType(ret.units, "preamble")
        IN  /\ Cardinality(arts) = Cardinality(ArticleLines)
            /\ \A i \in 1..Cardinality(arts) :
                  LET seg == ret.units[Nth(arts, i)]
                      m == _RE_ARTICLE(ret.lines[Nth(ArticleLines, i)])
                  IN  /\ seg.unit_id = m.id
                      /\ seg.heading =
                            "Stattya " \o m.id
                              \o (IF m.title # "" THEN ". " \o m.title ELSE "")
            /\ pre \subseteq {1}
            /\ pre = {1} <=> Nth(ArticleLines, 1) > 1
            /\ \A i \in pre : ret.units[i].unit_id = "0"

WordPointLines == {i \in 1..Len(ret.lines) : _RE_POINT_WORD(ret.lines[i]) # ""}

IsMarker(ln) == _RE_SECTION(ln) # "" \/ _RE_CHAPTER(ln) # ""

\* the line starts a unit of the type when nothing before it claims it
IsUnitLine(ln, unit_type) ==
    IF unit_type = "article" THEN _RE_ARTICLE(ln).matched
    ELSE _RE_POINT_WORD(ln) # "" \/ _RE_POINT_NUM(ln) # ""

Contains(s, sub) ==
    \E i \in 1..(Len(s) - Len(sub) + 1) : SubSeq(s, i, i + Len(sub) - 1) = sub

\* the places where a Section marker, a title in capitals and an Article
\* line follow one another
SectionTitleArticle ==
    {i \in 1..(Len(ret.lines) - 2) :
        /\ _RE_SECTION(ret.lines[i]) # ""
        /\ _is_upper_title(ret.lines[i + 1]) /\ ~IsMarker(ret.lines[i + 1])
        /\ _RE_ARTICLE(ret.lines[i + 2]).matched}

\* some segment's path has the section label with its title and the
\* article's label
PathNamesBoth(i) ==
    \E k \in 1..Len(ret.out) :
        /\ Contains(ret.out[k].path,
                    "Rozdil " \o _RE_SECTION(ret.lines[i])
                      \o " (" \o ret.lines[i + 1] \o ")")
        /\ Contains(ret.out[k].path,
                    "Stattya " \o _RE_ARTICLE(ret.lines[i + 2]).id)

\* C26 (path composition), as stated: whenever a Section marker line, a
\* title line in capitals and an Article line follow one another, some
\* segment's path contains the section label with its title and the
\* article's label.
C26_PathWhenever ==
    Segmented => \A i \in SectionTitleArticle : PathNamesBoth(i)

\* C26, amended: the same, for texts whose mode is article, that is with at
\* least two lines matching the Article pattern; in point and plain mode no
\* path names an article.
C26_PathInArticleMode ==
    Segmented =>
        /\ ret.mode = "article" => \A i \in SectionTitleArticle : PathNamesBoth(i)
        /\ ret.mode # "article" =>
              \A k \in 1..Len(ret.out) : ~Contains(ret.out[k].path, "Stattya ")

\* C26's case: the three lines and a second Article line
C26_Witness ==
    /\ Segmented /\ ret.mode = "article"
    /\ \E i \in SectionTitleArticle : PathNamesBoth(i)

\* the places in out of the parts of the i-th segment: from its part 0 to
\* the next part 0
PartsAt(i) ==
    LET starts == {k \in 1..Len(ret.out) : ret.out[k].part = 0}
        first == Nth(starts, i)
        next == IF i < Cardinality(starts) THEN Nth(starts, i + 1)
                ELSE Len(ret.out) + 1
    IN  first..(next - 1)

\* the parts keep the segment's labels and are numbered from 0
SameUnit(i) ==
    \A k \in PartsAt(i) :
        /\ ret.out[k].path = ret.units[i].path
        /\ ret.out[k].heading = ret.units[i].heading
        /\ ret.out[k].unit_type = ret.units[i].unit_type
        /\ ret.out[k].unit_id = ret.units[i].unit_id
        /\ ret.out[k].part = k - Nth({j \in 1..Len(ret.out) : ret.out[j].part = 0}, i)

IsLong(i) == Len(ret.units[i].text) > 2 * chunk_size_chars

IsChrome(ln) ==
    LET low == Lower(ln)
    IN  \/ StartsWith(low, "drukuvaty") \/ StartsWith(low, "print")
        \/ StartsWith(low, "dopomoha") \/ StartsWith(low, "help")
        \/ StartsWith(low, "shryft") \/ Contains(low, "ctrl")
        \/ StartsWith(low, "image:")

OpeningWords ==
    {"ZAKON", "POSTANOVA", "UKAZ", "NAKAZ", "ROZPORYADZHENNYA", "KODEKS",
     "KONSTYTUTSIYA"}

\* re.match(r"^(ZAKON|...)\b", ln): case-sensitive, the word ends at a boundary.
Opens(ln) ==
    \E w \in OpeningWords : StartsWith(ln, w) /\ Boundary(ln, Len(w) + 1)

\* The indices at which the loop reaches the opening test and breaks; the
\* chrome tests come first and `continue`.
BreakAt(lines) ==
    {i \in 1..Len(lines) : ~IsChrome(lines[i]) /\ Opens(lines[i])}

\* The index i of `lines = lines[i:]; break`.
FirstBreak(lines) ==
    CHOOSE i \in BreakAt(lines) : \A j \in BreakAt(lines) : i <= j

\* `lines` after the loop: cut at the first break index, otherwise as it was.
\* drop_prefix is filled by the loop and read nowhere.
AfterLoop(lines) ==
    IF BreakAt(lines) = {} THEN lines
    ELSE SubSeq(lines, FirstBreak(lines), Len(lines))

extract_text_from_html_rada_print(txt) ==
    normalize_text(JoinedWith("\n", AfterLoop(LinesOf(txt))))

\* ----- specification: the print view of pages of up to MaxRadaLines lines --

MaxRadaLines == 3

RadaPool ==
    << "Drukuvaty", "print version", "Dopomoha", "Help", "Shryft: A+",
       "Press Ctrl+P", "image: gerb", "ZAKON UKRAYINY", "ZAKONY pro",
       "zakon ukrayiny", "  KODEKS  ", "Pro osvitu", "UKAZ Ctrl" >>

\* txt = _bs_text(html): the page's text, normalized.
InitRada ==
    /\ sources = {} /\ documents = {} /\ chunks = {}
    /\ sess = [w \in Workers |-> NoSess]
    /\ epoch = Dirty
    /\ overlap = FALSE
    /\ \E n \in 0..MaxRadaLines : \E pick \in [1..n -> 1..Len(RadaPool)] :
          ret = [op |-> "html",
                 text |-> normalize_text(
                     JoinedWith("\n", [i \in 1..n |-> RadaPool[pick[i]]]))]

ExtractRada ==
    /\ ret.op = "html"
    /\ ret' = [op |-> "extract_text_from_html_rada_print", text |-> ret.text,
               lines |-> LinesOf(ret.text),
               out |-> extract_text_from_html_rada_print(ret.text)]
    /\ UNCHANGED <<sources, documents, chunks, sess, epoch, overlap>>

SpecRada == InitRada /\ [][ExtractRada]_vars

\* C28: the text extracted from the print view has no chrome line (a line
\* starting with a print, help or font-control word or with "image:", or
\* mentioning ctrl), and when some line of the page opens a document the
\* output starts at the first such line; for every page, also one without an
\* opening line.
C28_NoChromeFromOpening ==
    ret.op = "extract_text_from_html_rada_print" =>
        LET outl == LinesOf(ret.out)
            opening == {i \in 1..Len(ret.lines) : Opens(ret.lines[i])}
        IN  /\ \A i \in 1..Len(outl) : ~IsChrome(outl[i])
            /\ opening # {} =>
                  /\ outl # << >>
                  /\ outl[1] = ret.lines[CHOOSE i \in opening :
                                             \A j \in opening : i <= j]


\* ---------------------------------------------------------------------------
\* bot/ui_nav.py : the navigation stack kept in user_data["nav_stack"]
\* ---------------------------------------------------------------------------

MaxPushes == 5

Screens == {"idle", "topic_select"}

\* The payload arguments: None (the default), an empty dict, a filled dict.
NavPayloads == {"None", "{}", "{'topic': 'tax'}"}

\* `payload or {}`
PayloadOrEmpty(payload) == IF payload \in {"None", "{}"} THEN "{}" ELSE payload

\* item = {"screen": screen, "payload": payload or {}}
Item(screen, payload) == [screen |-> screen, payload |-> PayloadOrEmpty(payload)]

\* A push that never compares the item with the top.
AlwaysAppended(st, item) == FALSE

\* `if st and st[-1] == item: return`
SameAsTop(st, item) == st # << >> /\ st[Len(st)] = item

\* list.pop() removes and returns the last element.
PopIndex(st) == Len(st)

Without(s, k) == [i \in 1..(Len(s) - 1) |-> IF i < k THEN s[i] ELSE s[i + 1]]

\* user_data = {}: no "nav_stack" key. pushed_at records, for each entry of
\* the list, the number of the push_screen call that appended it.
InitNav ==
    /\ sources = {} /\ documents = {} /\ chunks = {}
    /\ sess = [w \in Workers |-> NoSess]
    /\ epoch = Dirty
    /\ overlap = FALSE
    /\ ret = [op |-> "nav", has_key |-> FALSE, nav_stack |-> << >>,
              pushed_at |-> << >>, pushes |-> 0, call |-> "none",
              arg |-> << >>, before |-> << >>, result |-> << >>]

\* stack(user_data) stores [] under the key when it holds no list; every
\* operation leaves the key set. result is << >> for None.
push_screen(screen, payload) ==
    /\ ret.op = "nav"
    /\ ret.pushes < MaxPushes
    /\ LET item == Item(screen, payload)
           same == SameAsTop(ret.nav_stack, item)
       IN  ret' = [ret EXCEPT
                     !.has_key = TRUE,
                     !.nav_stack = IF same THEN @ ELSE Append(@, item),
                     !.pushed_at = IF same THEN @ ELSE Append(@, ret.pushes + 1),
                     !.pushes = @ + 1,
                     !.call = "push_screen",
                     !.arg = << item >>,
                     !.before = ret.nav_stack,
                     !.result = << >>]
    /\ UNCHANGED <<sources, documents, chunks, sess, epoch, overlap>>

pop_screen ==
    /\ ret.op = "nav"
    /\ LET st == ret.nav_stack
       IN  ret' = [ret EXCEPT
                     !.has_key = TRUE,
                     !.nav_stack = IF st = << >> THEN @ ELSE Without(@, PopIndex(st)),
                     !.pushed_at = IF st = << >> THEN @ ELSE Without(@, PopIndex(st)),
                     !.call = "pop_screen",
                     !.arg = << >>,
                     !.before = st,
                     !.result = IF st = << >> THEN << >>
                                ELSE << [item |-> st[PopIndex(st)],
                                         at |-> ret.pushed_at[PopIndex(st)]] >>]
    /\ UNCHANGED <<sources, documents, chunks, sess, epoch, overlap>>

reset_stack ==
    /\ ret.op = "nav"
    /\ ret' = [ret EXCEPT !.has_key = TRUE, !.nav_stack = << >>,
                          !.pushed_at = << >>, !.call = "reset_stack",
                          !.arg = << >>, !.before = ret.nav_stack,
                          !.result = << >>]
    /\ UNCHANGED <<sources, documents, chunks, sess, epoch, overlap>>

NextNav ==
    \/ \E screen \in Screens, payload \in NavPayloads : push_screen(screen, payload)
    \/ pop_screen
    \/ reset_stack

SpecNav == InitNav /\ [][NextNav]_vars

\* C31: after any sequence of push_screen, pop_screen and reset_stack the stack
\* holds no two equal adjacent entries, a push of an item equal to the top
\* leaves the stack as it was; pop_screen returns the entry pushed last among
\* those on the stack and removes it, or None on an empty stack; after
\* reset_stack the stack is empty, so that the next pop_screen returns None.
C31_NavStack ==
    ret.op = "nav" =>
        /\ \A i \in 1..(Len(ret.nav_stack) - 1) : ret.nav_stack[i] # ret.nav_stack[i + 1]
        /\ (ret.call = "push_screen" /\ ret.before # << >>
                /\ ret.before[Len(ret.before)] = ret.arg[1])
              => ret.nav_stack = ret.before
        /\ ret.call = "pop_screen" =>
              /\ ret.before = << >> => ret.result = << >> /\ ret.nav_stack = << >>
              /\ ret.before # << >> =>
                    /\ ret.result # << >>
                    /\ \A i \in 1..Len(ret.pushed_at) : ret.pushed_at[i] < ret.result[1].at
                    /\ Len(ret.nav_stack) = Len(ret.before) - 1
                    /\ \E i \in 1..Len(ret.before) : ret.before[i] = ret.result[1].item
        /\ ret.call = "reset_stack" => ret.nav_stack = << >>

\* A pop that returned an entry from under which another entry remains, after a
\* push of an item equal to the top was ignored.
C31_Witness ==
    /\ ret.op = "nav"
    /\ ret.call = "pop_screen"
    /\ ret.result # << >>
    /\ ret.nav_stack # << >>
    /\ ret.pushes > Len(ret.before)


\* ----- claims on the service lines of the answer (SpecAnswer) --------------

\* line is need_more_info=true or need_more_info=false in any case, with
\* optional blanks around it and around the equals sign.
IsServiceLine(line) ==
    LET s == Lower(Strip(line))
        r1 == Strip(SubSeq(s, Len("need_more_info") + 1, Len(s)))
        r2 == Strip(SubSeq(r1, 2, Len(r1)))
    IN  /\ StartsWith(s, "need_more_info")
        /\ StartsWith(r1, "=")
        /\ r2 \in {"true", "false"}

\* The lines of text, as pairs of first and last position, that are service
\* lines; lines end at "\n".
ServiceLines(text) ==
    {span \in (1..Len(text)) \X (1..Len(text)) :
        /\ span[1] <= span[2]
        /\ span[1] = 1 \/ Char(text, span[1] - 1) = "\n"
        /\ span[2] = Len(text) \/ Char(text, span[2] + 1) = "\n"
        /\ \A i \in span[1]..span[2] : Char(text, i) # "\n"
        /\ IsServiceLine(SubSeq(text, span[1], span[2]))}

\* C32: the answer returned by answer_question has no line that is
\* need_more_info=true or need_more_info=false (in any case, alone on its
\* line), whatever answer text the completion produced.
C32_NoServiceLine ==
    (ret.op = "answer_question" /\ ret.pc = "returned") =>
        ServiceLines(ret.result.answer) = {}

\* A completion whose answer text had a service line and other text.
C32_Witness ==
    /\ ret.op = "answer_question" /\ ret.pc = "returned"
    /\ ret.llm = "ok"
    /\ ServiceLines(ret.llm_out.answer_markdown) # {}
    /\ ret.result.answer # ""


\* ---------------------------------------------------------------------------
\* shared/llm.py : embed_text, as called by retrieve (retrieval.py 44-48)
\* embed_text is wrapped in a retry decorator and calls embed_texts, which is
\* wrapped in the same decorator.
\* ---------------------------------------------------------------------------

\* settings.openai_max_retries, the default
openai_max_retries == 3

\* stop=stop_after_attempt(settings.openai_max_retries)
stop_after_attempt(attempt_number) == attempt_number >= openai_max_retries

\* wait_exponential(multiplier=1, min=1, max=12) before attempt n + 1
EmbedWait(n) ==
    LET exp == 2 ^ (n - 1)
        low == IF exp <= 12 THEN exp ELSE 12
    IN  IF low >= 1 THEN low ELSE 1

\* How client.embeddings.create may end: data with one embedding, data with
\* none, or an exception of the client.
EmbedOutcomes == {"vector", "empty", "APIConnectionError", "RateLimitError"}

EmbedQueries == {"stattya 6", "podatok na prybutok"}

InitEmbed ==
    /\ sources = {} /\ documents = {} /\ chunks = {}
    /\ sess = [w \in Workers |-> NoSess]
    /\ epoch = Dirty
    /\ overlap = FALSE
    /\ ret = NoRet

\* retrieve: qvec = llm.embed_text(query), inside try
EmbedCall ==
    /\ ret = NoRet
    /\ \E query \in EmbedQueries :
          ret' = [op |-> "embed_text", pc |-> "requesting", query |-> query,
                  outer |-> 1, inner |-> 1, requests |-> <<>>,
                  slept |-> <<>>, qvec |-> None]
    /\ UNCHANGED <<sources, documents, chunks, sess, epoch, overlap>>

\* One run of the body of embed_texts([text], batch_size=1): a single request,
\* then the decision of embed_texts's decorator and, when the exception leaves
\* embed_texts or `[0]` finds no element, that of embed_text's decorator;
\* when it leaves embed_text too, retrieve catches it and goes on with
\* qvec = None.
EmbedRequest ==
    /\ ret.op = "embed_text" /\ ret.pc = "requesting"
    /\ \E outcome \in EmbedOutcomes :
          LET requests == Append(ret.requests, outcome)
              raised_inside == outcome \notin {"vector", "empty"}
          IN  ret' =
                IF outcome = "vector"
                THEN [ret EXCEPT !.requests = requests, !.pc = "returned",
                                 !.qvec = "vector"]
                ELSE IF raised_inside /\ ~stop_after_attempt(ret.inner)
                THEN [ret EXCEPT !.requests = requests, !.pc = "sleeping_inner",
                                 !.slept = Append(@, EmbedWait(ret.inner))]
                ELSE IF ~stop_after_attempt(ret.outer)
                THEN [ret EXCEPT !.requests = requests, !.pc = "sleeping_outer",
                                 !.slept = Append(@, EmbedWait(ret.outer))]
                ELSE [ret EXCEPT !.requests = requests, !.pc = "lexical_only",
                                 !.qvec = None]
    /\ UNCHANGED <<sources, documents, chunks, sess, epoch, overlap>>

\* The wait is over: the next attempt of embed_texts, or the next attempt of
\* embed_text, which calls embed_texts anew.
EmbedWake ==
    /\ ret.op = "embed_text"
    /\ \/ /\ ret.pc = "sleeping_inner"
          /\ ret' = [ret EXCEPT !.pc = "requesting", !.inner = @ + 1]
       \/ /\ ret.pc = "sleeping_outer"
          /\ ret' = [ret EXCEPT !.pc = "requesting", !.inner = 1, !.outer = @ + 1]
    /\ UNCHANGED <<sources, documents, chunks, sess, epoch, overlap>>

NextEmbed == EmbedCall \/ EmbedRequest \/ EmbedWake

SpecEmbed == InitEmbed /\ [][NextEmbed]_vars

\* Every request sent so far ended in an exception of the client.
KeepsFailing ==
    \A i \in 1..Len(ret.requests) : ret.requests[i] \notin {"vector", "empty"}

\* C33 (bounded retry of the query embedding), as stated: one embed_text call
\* issued by retrieve sends at most openai_max_retries requests to the
\* provider, also when every request fails, before retrieval goes on
\* lexical-only.
C33_AtMostMaxRetries ==
    (ret.op = "embed_text" /\ KeepsFailing) =>
        /\ Len(ret.requests) <= openai_max_retries
        /\ ret.pc = "lexical_only" => ret.qvec = None


\* ---------------------------------------------------------------------------
\* shared/utils.py : chunk_text, one step of its loop at a time
\* ---------------------------------------------------------------------------

MaxChunkSize == 4
MaxOverlap == 5
MaxWindows == 12

ChunkInputs == {"", "a", "ab cd", "abc  def g", "a\n\n\n\nb c", "abcdefghi", "a \n b"}

\* The overlap kept as it was given.
OverlapAsGiven(chunk_size, chunk_overlap) == chunk_overlap

\* `if overlap >= chunk_size: overlap = chunk_size // 4`
EffectiveOverlap(chunk_size, chunk_overlap) ==
    IF chunk_overlap >= chunk_size THEN chunk_size \div 4 ELSE chunk_overlap

\* j = min(n, i + chunk_size)
WindowEnd(n, i, chunk_size) == IF i + chunk_size <= n THEN i + chunk_size ELSE n

\* i = max(0, j - overlap)
NextStart(j, chunk_overlap) == IF j - chunk_overlap >= 0 THEN j - chunk_overlap ELSE 0

InitChunk ==
    /\ sources = {} /\ documents = {} /\ chunks = {}
    /\ sess = [w \in Workers |-> NoSess]
    /\ epoch = Dirty
    /\ overlap = FALSE
    /\ ret = NoRet

\* Lines 30-37: the text is normalized, a chunk size of 0 or less returns the
\* text whole, the overlap is replaced when it is not below the chunk size.
ChunkCall ==
    /\ ret = NoRet
    /\ \E text \in ChunkInputs, chunk_size \in 0..MaxChunkSize, given \in 0..MaxOverlap :
          LET t == normalize_text(text)
          IN  ret' = [op |-> "chunk_text",
                      pc |-> IF chunk_size <= 0 THEN "returned" ELSE "loop",
                      text |-> t, chunk_size |-> chunk_size, given |-> given,
                      chunk_overlap |-> EffectiveOverlap(chunk_size, given),
                      i |-> 0, windows |-> <<>>,
                      out |-> IF chunk_size <= 0 THEN <<t>> ELSE <<>>]
    /\ UNCHANGED <<sources, documents, chunks, sess, epoch, overlap>>

\* One pass of the body of `while i < n`, lines 39-46.
ChunkStep ==
    /\ ret.op = "chunk_text" /\ ret.pc = "loop"
    /\ ret.i < Len(ret.text)
    /\ Len(ret.windows) < MaxWindows
    /\ LET n == Len(ret.text)
           j == WindowEnd(n, ret.i, ret.chunk_size)
           chunk == Strip(SubSeq(ret.text, ret.i + 1, j))
       IN  ret' = [ret EXCEPT
                     !.windows = Append(@, <<ret.i, j>>),
                     !.out = IF chunk # "" THEN Append(@, chunk) ELSE @,
                     !.pc = IF j = n THEN "returned" ELSE "loop",
                     !.i = IF j = n THEN @ ELSE NextStart(j, ret.chunk_overlap)]
    /\ UNCHANGED <<sources, documents, chunks, sess, epoch, overlap>>

\* `while i < n` is false.
ChunkExit ==
    /\ ret.op = "chunk_text" /\ ret.pc = "loop"
    /\ ret.i >= Len(ret.text)
    /\ ret' = [ret EXCEPT !.pc = "returned"]
    /\ UNCHANGED <<sources, documents, chunks, sess, epoch, overlap>>

NextChunk == ChunkCall \/ ChunkStep \/ ChunkExit

SpecChunk == InitChunk /\ [][NextChunk]_vars

\* The call runs on: a step that can be taken is taken.
FairSpecChunk == SpecChunk /\ WF_vars(NextChunk)

\* What C34 says of the windows taken so far, for a chunk size of 1 or more.
WindowsAsClaimed ==
    (ret.op = "chunk_text" /\ ret.chunk_size >= 1) =>
        LET w == ret.windows
            shared == IF ret.given >= ret.chunk_size THEN ret.chunk_size \div 4
                      ELSE ret.given
        IN  /\ \A k \in 1..(Len(w) - 1) : w[k + 1][1] > w[k][1]
            /\ \A k \in 1..(Len(w) - 1) : w[k][2] - w[k + 1][1] = shared
            /\ \A k \in 1..Len(ret.out) :
                  ret.out[k] # "" /\ Len(ret.out[k]) <= ret.chunk_size
            /\ ret.pc = "loop" => Len(w) < MaxWindows
            /\ ret.pc = "returned" =>
                  \A p \in 1..Len(ret.text) :
                      \E k \in 1..Len(w) : w[k][1] < p /\ p <= w[k][2]

\* C34: chunk_text returns for every text, every chunk size of 1 or more and
\* every overlap of 0 or more (an overlap not below the chunk size is replaced
\* by chunk size div 4); the window start grows at every step, every chunk
\* produced is non-empty and at most chunk size long, consecutive windows
\* share exactly the effective overlap and the windows cover every position
\* of the normalized text.
C34_ChunkTextTerminates ==
    /\ []WindowsAsClaimed
    /\ <>(ret.op = "chunk_text" /\ ret.pc = "returned")

\* A returned call whose overlap was replaced, with three windows or more and
\* a window of blanks that gave no chunk.
C34_Witness ==
    /\ ret.op = "chunk_text" /\ ret.pc = "returned"
    /\ ret.chunk_size >= 1 /\ ret.given >= ret.chunk_size
    /\ Len(ret.windows) >= 3
    /\ Len(ret.out) < Len(ret.windows)


\* ----- claims on the size of the segments returned (SpecSegment) -----------

\* The unit whose text the k-th returned segment is, or is a part of.
UnitOf(k) == CHOOSE i \in 1..Len(ret.units) : k \in PartsAt(i)

\* C35: every segment returned by segment_legal_text has a text of at most
\* twice chunk_size_chars characters, a segment above that bound having been
\* replaced by parts of at most chunk_size_chars characters each.
C35_SegmentsBounded ==
    Segmented =>
        \A k \in 1..Len(ret.out) :
            /\ Len(ret.out[k].text) <= 2 * chunk_size_chars
            /\ IsLong(UnitOf(k)) => Len(ret.out[k].text) <= chunk_size_chars

\* A text with a unit above the bound, cut into parts, and a unit longer than
\* the chunk size but within the bound, returned whole.
C35_Witness ==
    /\ Segmented
    /\ \E i \in 1..Len(ret.units) : IsLong(i) /\ Cardinality(PartsAt(i)) >= 2
    /\ \E k \in 1..Len(ret.out) :
          /\ Len(ret.out[k].text) > chunk_size_chars
          /\ ~IsLong(UnitOf(k))


\* ---------------------------------------------------------------------------
\* shared/ingest.py : _store_document_and_chunks, lines 676-700, with the
\* batches of shared/llm.py : embed_texts (lines 32-47)
\* ---------------------------------------------------------------------------

\* embed_texts(chunk_texts, batch_size=32)
batch_size == 32

\* The numbers of segments a Document is stored with: one batch, a full batch
\* and one more, two full batches and one more.
SegmentCounts == {1, 33, 65}

\* How client.embeddings.create may end for a batch: one embedding per input,
\* one embedding too few, or an exception.
BatchOutcomes == {"vectors", "short", "raised"}

Vector(idx) == <<"vec", idx>>

IsNull(v) == ToString(v) = ToString(None)

\* out.extend([d.embedding for d in resp.data]) for the batch texts[i : i + batch_size]
Extended(out, i, n, outcome) ==
    LET last == IF i + batch_size <= n THEN i + batch_size ELSE n
        got == IF outcome = "short" THEN last - 1 ELSE last
    IN  out \o [k \in 1..(got - i) |-> Vector(i + k - 1)]

\* The vectors gathered before the exception, kept.
PartialKept(n, result) == result.out

\* Lines 678-682: the vectors returned, or [None] * len(segments) when
\* embed_texts raised.
EmbeddingsOf(n, result) ==
    IF result.raised THEN [k \in 1..n |-> None] ELSE result.out

\* Lines 684-700: vec = embeddings[idx] if idx < len(embeddings) else None
ChunkEmbeddings(n, embeddings) ==
    [k \in 1..n |-> IF k <= Len(embeddings) THEN embeddings[k] ELSE None]

InitStore ==
    /\ sources = {} /\ documents = {} /\ chunks = {}
    /\ sess = [w \in Workers |-> NoSess]
    /\ epoch = Dirty
    /\ overlap = FALSE
    /\ ret = NoRet

\* Line 676-679: the texts of the segments are handed to embed_texts; its
\* first attempt starts with out = [] and i = 0.
StoreEmbedCall ==
    /\ ret = NoRet
    /\ \E n \in SegmentCounts :
          ret' = [op |-> "store", pc |-> "batch", n |-> n, attempt |-> 1,
                  i |-> 0, out |-> <<>>, short |-> FALSE, embeddings |-> <<>>,
                  chunk_embeddings |-> <<>>]
    /\ UNCHANGED <<sources, documents, chunks, sess, epoch, overlap>>

\* One pass of `while i < len(texts)` in embed_texts. An exception ends the
\* attempt: the decorator starts another one or, after the last, raises into
\* _store_document_and_chunks, whose except clause takes over.
EmbedBatch ==
    /\ ret.op = "store" /\ ret.pc = "batch"
    /\ \E outcome \in BatchOutcomes :
          IF outcome = "raised"
          THEN ret' = [ret EXCEPT
                         !.pc = IF stop_after_attempt(ret.attempt)
                                THEN "embedded" ELSE "sleeping",
                         !.embeddings =
                             IF stop_after_attempt(ret.attempt)
                             THEN EmbeddingsOf(ret.n, [raised |-> TRUE, out |-> ret.out])
                             ELSE @]
          ELSE LET out == Extended(ret.out, ret.i, ret.n, outcome)
                   i == ret.i + batch_size
               IN  ret' = [ret EXCEPT
                             !.out = out, !.i = i,
                             !.short = @ \/ outcome = "short",
                             !.pc = IF i < ret.n THEN "batch" ELSE "embedded",
                             !.embeddings =
                                 IF i < ret.n THEN @
                                 ELSE EmbeddingsOf(ret.n, [raised |-> FALSE, out |-> out])]
    /\ UNCHANGED <<sources, documents, chunks, sess, epoch, overlap>>

\* The next attempt of embed_texts: its body runs from the start.
EmbedRetry ==
    /\ ret.op = "store" /\ ret.pc = "sleeping"
    /\ ret' = [ret EXCEPT !.pc = "batch", !.attempt = @ + 1, !.i = 0,
                          !.out = <<>>, !.short = FALSE]
    /\ UNCHANGED <<sources, documents, chunks, sess, epoch, overlap>>

\* Lines 684-703: the Chunk rows of the Document.
AddChunks ==
    /\ ret.op = "store" /\ ret.pc = "embedded"
    /\ ret' = [ret EXCEPT !.pc = "stored",
                          !.chunk_embeddings = ChunkEmbeddings(ret.n, ret.embeddings)]
    /\ UNCHANGED <<sources, documents, chunks, sess, epoch, overlap>>

NextStore == StoreEmbedCall \/ EmbedBatch \/ EmbedRetry \/ AddChunks

SpecStore == InitStore /\ [][NextStore]_vars

\* C36: provided every answered batch of the attempt that returned held one
\* vector per text, the Chunks of a Document all have an embedding or all have
\* none; when embed_texts raised, every Chunk has none, also when batches had
\* been answered before the failing one.
C36_AllOrNothing ==
    (ret.op = "store" /\ ret.pc = "stored" /\ ~ret.short) =>
        LET e == ret.chunk_embeddings
            raised == stop_after_attempt(ret.attempt) /\ ret.i < ret.n
        IN  /\ Len(e) = ret.n
            /\ \/ \A k \in 1..ret.n : IsNull(e[k])
               \/ \A k \in 1..ret.n : ~IsNull(e[k])
            /\ raised => \A k \in 1..ret.n : IsNull(e[k])
            /\ ~raised => \A k \in 1..ret.n : ~IsNull(e[k])

\* A Document of several batches stored without embeddings after a batch
\* failed that followed an answered one.
C36_Witness ==
    /\ ret.op = "store" /\ ret.pc = "stored" /\ ~ret.short
    /\ ret.n > batch_size
    /\ ret.i > 0 /\ ret.i < ret.n
    /\ \A k \in 1..ret.n : IsNull(ret.chunk_embeddings[k])


\* ----- claims on the paths of the segments (SpecSegment) -------------------

\* The line p is taken as the title of the marker on the line before it.
TitleLine(p) ==
    /\ p > 1
    /\ IsMarker(ret.lines[p - 1])
    /\ ~IsMarker(ret.lines[p])
    /\ _is_upper_title(ret.lines[p])

\* The line p starts a unit in the mode of the text.
StartLine(p) ==
    LET ln == ret.lines[p]
    IN  /\ ~IsMarker(ln) /\ ~TitleLine(p)
        /\ IF ret.mode = "article" THEN _RE_ARTICLE(ln).matched
           ELSE \/ _RE_POINT_WORD(ln) # ""
                \/ ret.mode = "point" /\ _RE_POINT_NUM(ln) # ""

\* The label of the marker on line q: its word, its id and, in brackets, the
\* title on the next line if that line is one.
MarkerLabel(word, id, q) ==
    IF q < Len(ret.lines) /\ TitleLine(q + 1)
    THEN word \o " " \o id \o " (" \o ret.lines[q + 1] \o ")"
    ELSE word \o " " \o id

\* The label of the unit started on line p.
OwnLabel(p) ==
    LET ln == ret.lines[p]
    IN  IF ret.mode = "article" THEN "Stattya " \o _RE_ARTICLE(ln).id
        ELSE IF _RE_POINT_WORD(ln) # "" THEN "Punkt " \o _RE_POINT_WORD(ln)
        ELSE "Punkt " \o _RE_POINT_NUM(ln)

\* The path C37 gives to the unit started on line p.
PathAsClaimed(p) ==
    LET secs == {q \in 1..(p - 1) : _RE_SECTION(ret.lines[q]) # ""}
        chaps == {q \in 1..(p - 1) : _RE_CHAPTER(ret.lines[q]) # ""}
        sec == CHOOSE q \in secs : \A r \in secs : r <= q
        chap == CHOOSE q \in chaps : \A r \in chaps : r <= q
    IN  JoinedWith(" / ",
            (IF secs = {} THEN <<>>
             ELSE <<MarkerLabel("Rozdil", _RE_SECTION(ret.lines[sec]), sec)>>)
            \o (IF chaps = {} THEN <<>>
                ELSE <<MarkerLabel("Glava", _RE_CHAPTER(ret.lines[chap]), chap)>>)
            \o <<OwnLabel(p)>>)

StartLines == {p \in 1..Len(ret.lines) : StartLine(p)}

Units == {i \in 1..Len(ret.units) : ret.units[i].unit_type \in {"article", "point"}}

\* C37: the path of an article or point segment joins with " / " the label of
\* the last Section marker before the line that starts the unit (with the
\* capital title that directly followed the marker, if any), the label of the
\* last Chapter marker before it (likewise) and the unit's own label; a new
\* Section marker leaves the Chapter label as it was; a marker closes the
\* open unit, which keeps the labels it started under; preamble, tail and
\* chunk segments have no path.
C37_PathComposition ==
    Segmented =>
        /\ Cardinality(Units) = Cardinality(StartLines)
        /\ \A k \in 1..Cardinality(Units) :
              ret.units[Nth(Units, k)].path = PathAsClaimed(Nth(StartLines, k))
        /\ \A i \in 1..Len(ret.units) :
              i \notin Units => ret.units[i].path = None
        /\ \A k \in 1..Len(ret.out) :
              ret.out[k].path = ret.units[UnitOf(k)].path

\* A unit under a Chapter, closed by a new Section marker, and a unit after
\* that marker whose path names the new Section and the old Chapter.
C37_Witness ==
    /\ Segmented
    /\ \E c, a, s, b \in 1..Len(ret.lines) :
          /\ c < a /\ a < s /\ s < b
          /\ _RE_CHAPTER(ret.lines[c]) # ""
          /\ StartLine(a)
          /\ _RE_SECTION(ret.lines[s]) # ""
          /\ StartLine(b)
    /\ \E i \in Units : \E j \in Units :
          /\ i < j
          /\ ~Contains(ret.units[i].path, "Rozdil")
          /\ Contains(ret.units[i].path, "Glava 2")
          /\ Contains(ret.units[j].path, "Rozdil II / Glava 2 / ")

\* ---------------------------------------------------------------------------
\* bot/handlers.py : one user's analyses, text messages and commands
\* The updates of a user are handled concurrently (main.py 42,
\* concurrent_updates(True)); a handler runs without interruption from one
\* await to the next. Text messages are numbered in the order they arrive; a
\* draft is the sequence of the messages joined into it.
\* ---------------------------------------------------------------------------

MAX_PENDING == 10

\* The text messages still to come, the analyses and the commands of a run;
\* the clarifications already queued in the run that starts on a busy bot.
MaxTexts == 3
MaxAnalyses == 2
MaxCommands == 1
QueuedAtStart == 9

\* context.user_data after the keys of the draft are popped, and with no key
\* at all. request_id 0, chat_id 0, last_answer << >> and status_msg_id 0
\* stand for an absent key; pending << >> for an absent or empty list.
NoUserData ==
    [busy |-> "absent", cancel |-> "absent", request_id |-> 0,
     draft_case |-> << >>, pending_msgs |-> << >>, fsm_state |-> "idle",
     chat_id |-> 0, last_answer |-> << >>, status_msg_id |-> 0]

_drop_draft(ud) ==
    [ud EXCEPT !.draft_case = << >>, !.busy = "absent",
               !.pending_msgs = << >>, !.request_id = 0, !.cancel = "absent"]

_new_question_reset(ud) ==
    [_drop_draft(ud) EXCEPT !.chat_id = 0, !.last_answer = << >>]

\* pending.append(msg), cut to the last MAX_PENDING entries with a note put
\* before the first of them
_push_pending(pending, msg) ==
    LET all == Append(pending, [msg |-> msg, folded |-> FALSE])
        n == Len(all)
    IN  IF n > MAX_PENDING
        THEN [k \in 1..MAX_PENDING |->
                 IF k = 1 THEN [all[n - MAX_PENDING + 1] EXCEPT !.folded = TRUE]
                 ELSE all[n - MAX_PENDING + k]]
        ELSE all

Msgs(pending) == [k \in 1..Len(pending) |-> pending[k].msg]

\* A check that looks at the cancel flag alone.
CancelFlagOnly(ud, req_id) == ud.cancel = "True"

\* `if user_data.get(CANCEL_KEY) or user_data.get(REQUEST_ID_KEY) != req_id: return`
Abandoned(ud, req_id) == ud.cancel = "True" \/ ud.request_id # req_id

\* No update handled yet.
FreshBot ==
    [op |-> "bot", ud |-> NoUserData, texts |-> 0, left |-> MaxTexts,
     an |-> << >>, cmds |-> << >>,
     requests |-> {}, stored |-> {}, answered |-> {},
     queued |-> {}, displaced |-> {}]

RECURSIVE PushedAll(_, _, _)
PushedAll(pending, from, to) ==
    IF from > to THEN pending
    ELSE PushedAll(_push_pending(pending, from), from + 1, to)

\* Message 1 has started the analysis 1, whose first api.chat call is in
\* flight, and the messages 2 .. QueuedAtStart + 1 have arrived since.
BusyBot ==
    [FreshBot EXCEPT
       !.texts = QueuedAtStart + 1,
       !.ud = [NoUserData EXCEPT
                 !.busy = "True", !.cancel = "False", !.request_id = 1,
                 !.draft_case = <<1>>, !.fsm_state = "analyzing",
                 !.status_msg_id = 1,
                 !.pending_msgs = PushedAll(<< >>, 2, QueuedAtStart + 1)],
       !.an = << [pc |-> "calling", draft |-> <<1>>, calls |-> 1,
                  kind |-> "none", cancelled |-> {}] >>,
       !.requests = {[req_id |-> 1, call |-> 1, draft |-> <<1>>]},
       !.queued = {[msg |-> m, owner |-> 1, cmds |-> 0] : m \in 2..(QueuedAtStart + 1)}]

InitBot ==
    /\ sources = {} /\ documents = {} /\ chunks = {}
    /\ sess = [w \in Workers |-> NoSess]
    /\ epoch = Dirty
    /\ overlap = FALSE
    /\ ret \in {FreshBot, BusyBot}

\* on_text for an ordinary text, taken as far as its first await (a message
\* ignored by the throttle or as a repetition changes none of the keys
\* below). The bot is busy and the message is queued, with the analysis it is
\* queued under and the number of commands fully handled so far; or it becomes
\* the draft (joined to the draft after a request for more information) and
\* _analyze sets the busy flag, clears the cancel flag and takes a new request
\* id, lines 492-503.
on_text ==
    /\ ret.op = "bot"
    /\ ret.left > 0
    /\ LET msg == ret.texts + 1
           ud == ret.ud
       IN  \/ /\ ud.busy = "True"
              /\ LET pending == _push_pending(ud.pending_msgs, msg)
                 IN  ret' = [ret EXCEPT
                        !.texts = msg, !.left = @ - 1,
                        !.ud.pending_msgs = pending,
                        !.queued = @ \cup {[msg |-> msg, owner |-> ud.request_id,
                                            cmds |-> Cardinality({c \in 1..Len(ret.cmds) :
                                                        ret.cmds[c].pc = "done"})]},
                        !.displaced = @ \cup
                            ({ud.pending_msgs[k].msg : k \in 1..Len(ud.pending_msgs)}
                               \ {pending[k].msg : k \in 1..Len(pending)})]
           \/ /\ ud.busy # "True"
              /\ Len(ret.an) < MaxAnalyses
              /\ LET kept == IF ud.fsm_state = "need_more_info"
                             THEN [ud EXCEPT !.draft_case = Append(@, msg)]
                             ELSE [_drop_draft(ud) EXCEPT !.draft_case = <<msg>>]
                     req_id == Len(ret.an) + 1
                 IN  ret' = [ret EXCEPT
                        !.texts = msg, !.left = @ - 1,
                        !.ud = [kept EXCEPT !.busy = "True", !.cancel = "False",
                                            !.request_id = req_id,
                                            !.fsm_state = "analyzing"],
                        !.an = Append(@, [pc |-> "status", draft |-> kept.draft_case,
                                          calls |-> 0, kind |-> "none",
                                          cancelled |-> {}])]
    /\ UNCHANGED <<sources, documents, chunks, sess, epoch, overlap>>

\* The api.chat call number `call` of the analysis a, with the draft it sends.
Request(a, call, draft) == [req_id |-> a, call |-> call, draft |-> draft]

\* _start_status has returned (the status message is the analysis's own); the
\* loop is entered: the first check, and the first api.chat call or, through
\* `finally`, busy = False.
AnalyzeEnter(a) ==
    /\ ret.op = "bot"
    /\ a \in 1..Len(ret.an) /\ ret.an[a].pc = "status"
    /\ LET ud == [ret.ud EXCEPT !.status_msg_id = a]
       IN  IF Abandoned(ud, a)
           THEN ret' = [ret EXCEPT !.ud = [ud EXCEPT !.busy = "False"],
                                   !.an[a].pc = "stopping"]
           ELSE ret' = [ret EXCEPT !.ud = ud,
                                   !.an[a].pc = "calling", !.an[a].calls = 1,
                                   !.requests = @ \cup {Request(a, 1, ret.an[a].draft)}]
    /\ UNCHANGED <<sources, documents, chunks, sess, epoch, overlap>>

\* api.chat has returned or raised, lines 516-551: the check after the call,
\* the result stored, the pending messages joined to the draft and the next
\* call, or the answer or the questions about to be sent.
ApiReturn(a) ==
    /\ ret.op = "bot"
    /\ a \in 1..Len(ret.an) /\ ret.an[a].pc = "calling"
    /\ \E outcome \in {"answer_ready", "need_more_info", "raised"} :
          LET ud == ret.ud
              me == ret.an[a]
          IN  IF outcome = "raised"
              THEN ret' = [ret EXCEPT !.an[a].pc = "failing"]
              ELSE IF Abandoned(ud, a)
              THEN ret' = [ret EXCEPT !.ud.busy = "False", !.an[a].pc = "stopping"]
              ELSE LET kept == [ud EXCEPT !.chat_id = a,
                                          !.last_answer = <<a, me.calls>>]
                       stored == ret.stored \cup {<<a, me.calls>>}
                   IN  IF ud.pending_msgs # << >>
                       THEN LET draft == me.draft \o Msgs(ud.pending_msgs)
                            IN  ret' = [ret EXCEPT
                                   !.ud = [kept EXCEPT !.pending_msgs = << >>,
                                                       !.draft_case = draft],
                                   !.stored = stored,
                                   !.an[a].draft = draft,
                                   !.an[a].calls = @ + 1,
                                   !.requests = @ \cup {Request(a, me.calls + 1, draft)}]
                       ELSE ret' = [ret EXCEPT !.ud = kept, !.stored = stored,
                                               !.an[a].pc = "sending",
                                               !.an[a].kind = outcome]
    /\ UNCHANGED <<sources, documents, chunks, sess, epoch, overlap>>

\* _send_need_more_info or _send_answer_short has sent its messages and set
\* the state; `finally` sets busy = False and waits for the typing task.
AnswerSent(a) ==
    /\ ret.op = "bot"
    /\ a \in 1..Len(ret.an) /\ ret.an[a].pc = "sending"
    /\ ret' = [ret EXCEPT !.ud.fsm_state = ret.an[a].kind,
                          !.ud.busy = "False",
                          !.answered = @ \cup {<<a, ret.an[a].calls>>},
                          !.an[a].pc = "stopping"]
    /\ UNCHANGED <<sources, documents, chunks, sess, epoch, overlap>>

\* `except Exception`: the error message is sent, the state set to idle;
\* `finally` sets busy = False.
AnalyzeFailed(a) ==
    /\ ret.op = "bot"
    /\ a \in 1..Len(ret.an) /\ ret.an[a].pc = "failing"
    /\ ret' = [ret EXCEPT !.ud.fsm_state = "idle", !.ud.busy = "False",
                          !.an[a].pc = "stopping"]
    /\ UNCHANGED <<sources, documents, chunks, sess, epoch, overlap>>

\* The end of `finally`: _stop_status pops the status keys.
AnalyzeStopped(a) ==
    /\ ret.op = "bot"
    /\ a \in 1..Len(ret.an) /\ ret.an[a].pc = "stopping"
    /\ ret' = [ret EXCEPT !.ud.status_msg_id = 0, !.an[a].pc = "done"]
    /\ UNCHANGED <<sources, documents, chunks, sess, epoch, overlap>>

\* cmd_cancel and _do_new_case as far as their first await: the cancel flag
\* is set. cmd_start as far as its first await: the keys are reset.
CommandBegin ==
    /\ ret.op = "bot"
    /\ Len(ret.cmds) < MaxCommands
    /\ \E kind \in {"cancel", "new_case", "start"} :
          ret' = [ret EXCEPT
                    !.cmds = Append(@, [kind |-> kind, pc |-> "begun"]),
                    !.ud = IF kind = "start" THEN _new_question_reset(@)
                           ELSE [@ EXCEPT !.cancel = "True"]]
    /\ UNCHANGED <<sources, documents, chunks, sess, epoch, overlap>>

\* The rest of the command: _stop_status has popped the status keys, the keys
\* are reset (cancel and new case), the state is idle. An api.chat call in
\* flight at this moment is one the command was fully handled under.
CommandEnd(c) ==
    /\ ret.op = "bot"
    /\ c \in 1..Len(ret.cmds) /\ ret.cmds[c].pc = "begun"
    /\ LET ud == IF ret.cmds[c].kind = "start" THEN ret.ud
                 ELSE [_new_question_reset(ret.ud) EXCEPT !.status_msg_id = 0]
           stops == ret.cmds[c].kind # "start"
       IN  ret' = [ret EXCEPT
                     !.ud = [ud EXCEPT !.fsm_state = "idle"],
                     !.cmds[c].pc = "done",
                     !.an = [a \in 1..Len(ret.an) |->
                                IF stops /\ ret.an[a].pc = "calling"
                                THEN [ret.an[a] EXCEPT !.cancelled = @ \cup {ret.an[a].calls}]
                                ELSE ret.an[a]]]
    /\ UNCHANGED <<sources, documents, chunks, sess, epoch, overlap>>

AnalyzeStep ==
    \E a \in 1..MaxAnalyses :
        \/ AnalyzeEnter(a) \/ ApiReturn(a) \/ AnswerSent(a)
        \/ AnalyzeFailed(a) \/ AnalyzeStopped(a)

NextBot ==
    \/ on_text
    \/ AnalyzeStep
    \/ CommandBegin
    \/ \E c \in 1..MaxCommands : CommandEnd(c)

SpecBot == InitBot /\ [][NextBot]_vars

\* Every analysis goes on: a call returns, a message is sent, a wait ends.
FairSpecBot == SpecBot /\ WF_vars(AnalyzeStep)


\* ----- claims on the bot (SpecBot, FairSpecBot) ----------------------------

\* The analyses whose api.chat call is in flight.
Calling == {a \in 1..Len(ret.an) : ret.an[a].pc = "calling"}

\* The analysis a leaves its loop and `finally` sets busy = False while the
\* busy flag is the one another analysis has set.
ClearsOthersBusy(a) ==
    /\ ret.an[a].pc \in {"status", "calling", "sending", "failing"}
    /\ ret'.an[a].pc = "stopping"
    /\ ret.ud.busy = "True" /\ ret.ud.request_id \notin {0, a}

\* The analysis a ends and pops the status message another analysis has put up.
ClearsOthersStatus(a) ==
    /\ ret.an[a].pc = "stopping"
    /\ ret'.an[a].pc = "done"
    /\ ret.ud.status_msg_id \notin {0, a}

\* C38 (single flight), as stated: at any moment at most one analysis has an
\* api.chat call in flight, the busy flag is true whenever a call is in
\* flight, and an analysis that ends clears neither the busy flag nor the
\* status message of another analysis.
C38_SingleFlight ==
    /\ [](ret.op = "bot" =>
            /\ Cardinality(Calling) <= 1
            /\ Calling # {} => ret.ud.busy = "True")
    /\ [][ret.op = "bot" =>
            \A a \in 1..Len(ret.an) :
                ~ClearsOthersBusy(a) /\ ~ClearsOthersStatus(a)]_vars

\* The message was sent to the API in a call of the analysis it was queued
\* under, was displaced from the list, or a command was being handled or came
\* after it was queued.
Settled(q) ==
    \/ \E r \in ret.requests :
          r.req_id = q.owner /\ \E k \in 1..Len(r.draft) : r.draft[k] = q.msg
    \/ q.msg \in ret.displaced
    \/ Len(ret.cmds) > q.cmds

AllSettled == ret.op = "bot" => \A q \in ret.queued : Settled(q)

\* C39 (pending clarifications), as stated: every message queued while the bot
\* is busy is in the end sent in a later api.chat call of the same analysis,
\* unless it is displaced by the overflow or a cancel, new-case or start
\* command comes; the list never holds more than MAX_PENDING entries.
C39_PendingProcessed ==
    /\ [](ret.op = "bot" => Len(ret.ud.pending_msgs) <= MAX_PENDING)
    /\ (~AllSettled) ~> AllSettled

\* C40: the result of an api.chat call that was in flight when a cancel or
\* new-case command was fully handled is not stored (last answer, citations,
\* chat id) and no answer or request for more information is sent for it,
\* also when another analysis has started since.
C40_CancelledDiscarded ==
    ret.op = "bot" =>
        \A a \in 1..Len(ret.an) : \A call \in ret.an[a].cancelled :
            /\ <<a, call>> \notin ret.stored
            /\ <<a, call>> \notin ret.answered
            /\ ret.ud.last_answer # <<a, call>>

\* The call of analysis 1 was in flight when the command was fully handled
\* and has returned since, while the analysis 2, started after the command,
\* has its own call in flight.
C40_Witness ==
    /\ ret.op = "bot"
    /\ Len(ret.an) = 2
    /\ ret.an[1].cancelled # {}
    /\ ret.an[1].pc \in {"stopping", "done"}
    /\ ret.an[2].pc = "calling"

====
